---- MODULE Spec2Model ----
(***************************************************************************)
(* The text-record codec of the CardDAV (Contacts.py) and CalDAV           *)
(* (Calendar.py) tools: _unfold, _parse_dav and _apply_edits, and the      *)
(* tools built on it that read a record, patch it and write it back.       *)
(*                                                                         *)
(* A text is a sequence of atoms.  Every delimiter the code looks at       *)
(* (":" ";" "." " " tab, line feed, carriage return) is an atom of its     *)
(* own; every other atom stands for a run of ordinary characters           *)
(* ("END", "VCARD", "Alice").  No word atom is a prefix, suffix or         *)
(* concatenation of other atoms, so Python's startswith, split, strip,     *)
(* `in` and == on strings are the same tests on sequences of atoms.        *)
(* The characters JSON gives a meaning to (the double quote, the           *)
(* backslash, braces, brackets, the comma) are atoms of their own as well. *)
(***************************************************************************)
EXTENDS Integers, Sequences, FiniteSets, TLC

VARIABLES kind,      \* which Tools class runs: "Contacts" or "Calendar"
          text,      \* the raw record text handed to the codec
          updates,   \* the update mapping, as its items() in iteration order
          pc,        \* which call has returned
          lines,     \* the value _unfold returned
          data,      \* the dict _parse_dav built (before json.dumps)
          out,       \* the value _apply_edits returned
          out2,      \* the value of a second _apply_edits on out
          store,     \* the text the server holds at the edited record's URL
          ed,        \* the running edit calls: position, arguments, locals, result
          sent,      \* the requests the server has answered, in order
          valves,    \* self.valves of the Tools instance the threads share
          args,      \* per thread: the helper it calls and the caller's arguments
          frames,    \* the local variables of the helper calls
          tpc,       \* per thread: where its helper call stands
          ret,       \* per thread: the value its helper call returned
          overlap,   \* the threads whose call saw another thread run in its midst
          book,      \* the address book on the server: file name and text of each card
          query,     \* the query handed to delete_contact
          del,       \* the delete_contact call: position, search result, return value
          call       \* a call of a public tool: operation, position, requests, responses, result

codecVars  == <<text, updates, pc, lines, data, out, out2>>
editVars   == <<store, ed, sent>>
threadVars == <<valves, args, frames, tpc, ret, overlap>>
deleteVars == <<book, query, del>>
toolVars   == <<call>>

vars == <<kind, text, updates, pc, lines, data, out, out2, store, ed, sent,
          valves, args, frames, tpc, ret, overlap, book, query, del, call>>

----------------------------------------------------------------------------
(* Atoms *)

SP  == " "
TAB == "\t"
NL  == "\n"
CR  == "\r"
COLON == ":"
SEMI  == ";"
DOT   == "."
BSL   == "\\"
QUOTE == "\""
APOS  == "'"
COMMA == ","
SLASH == "/"
LBRACE == "{"
RBRACE == "}"
LBRACK == "["
RBRACK == "]"

\* str.splitlines() breaks a text at "\n", "\r" and "\r\n".
LineBreaks == {NL, CR}

\* str.strip() removes these from both ends.
Whitespace == {SP, TAB, NL, CR}

----------------------------------------------------------------------------
(* Generic string helpers (Python str methods on sequences of atoms) *)

RECURSIVE Join(_, _)
\* sep.join(ss) for a one-atom separator
Join(ss, sep) ==
    IF ss = <<>> THEN <<>>
    ELSE IF Len(ss) = 1 THEN Head(ss)
    ELSE Head(ss) \o <<sep>> \o Join(Tail(ss), sep)

\* (c in s)
Has(s, c) == \E i \in 1..Len(s) : s[i] = c

\* index of the first c in s; Len(s)+1 when there is none
FirstIndex(s, c) ==
    IF Has(s, c) THEN CHOOSE i \in 1..Len(s) : s[i] = c /\ \A j \in 1..(i-1) : s[j] # c
    ELSE Len(s) + 1

\* s.split(c, 1)[0], which is also s.split(c)[0]
Before(s, c) == SubSeq(s, 1, FirstIndex(s, c) - 1)

\* s.split(c)[1], for s that contains c: the text between the first c and
\* the next one.
AfterOneField(s, c) ==
    Before(SubSeq(s, FirstIndex(s, c) + 1, Len(s)), c)

\* s.split(c, 1)[1], for s that contains c
After(s, c) == SubSeq(s, FirstIndex(s, c) + 1, Len(s))

RECURSIVE LStrip(_)
LStrip(s) == IF s # <<>> /\ Head(s) \in Whitespace THEN LStrip(Tail(s)) ELSE s

RECURSIVE RStrip(_)
RStrip(s) ==
    IF s # <<>> /\ s[Len(s)] \in Whitespace THEN RStrip(SubSeq(s, 1, Len(s) - 1)) ELSE s

\* s.strip()
Strip(s) == RStrip(LStrip(s))

\* (sub in s) for strings: sub occurs as a contiguous run
Contains(s, sub) ==
    \E i \in 1..(Len(s) - Len(sub) + 1) : SubSeq(s, i, i + Len(sub) - 1) = sub

RECURSIVE SplitRec(_, _, _)
SplitRec(t, cur, acc) ==
    IF t = <<>> THEN (IF cur = <<>> THEN acc ELSE Append(acc, cur))
    ELSE IF Head(t) = CR /\ Len(t) >= 2 /\ t[2] = NL
         THEN SplitRec(Tail(Tail(t)), <<>>, Append(acc, cur))
    ELSE IF Head(t) \in LineBreaks
         THEN SplitRec(Tail(t), <<>>, Append(acc, cur))
    ELSE SplitRec(Tail(t), Append(cur, Head(t)), acc)

\* text.splitlines(): the physical lines, without their line breaks; a final
\* line break opens no further line.
SplitLines(t) == SplitRec(t, <<>>, <<>>)

----------------------------------------------------------------------------
(* _unfold *)

\* l.startswith(" ") or l.startswith("\t")
IsContinuation(l) == l # <<>> /\ Head(l) \in {SP, TAB}

\* One pass of the loop body with the leading character kept (l instead of l[1:]).
UnfoldStepKeepsLead(unfolded, l) ==
    IF IsContinuation(l)
    THEN IF unfolded # <<>>
         THEN [unfolded EXCEPT ![Len(unfolded)] = @ \o l]
         ELSE unfolded
    ELSE Append(unfolded, l)

\* One pass of the loop body with a continuation that has nothing to join
\* opening a line of its own.
UnfoldStepKeepsOrphan(unfolded, l) ==
    IF IsContinuation(l)
    THEN IF unfolded # <<>>
         THEN [unfolded EXCEPT ![Len(unfolded)] = @ \o Tail(l)]
         ELSE <<Tail(l)>>
    ELSE Append(unfolded, l)

\* One pass of the loop body with a continuation that has nothing to join
\* appended as it stands, like a line that is no continuation.
UnfoldStepOrphanVerbatim(unfolded, l) ==
    IF IsContinuation(l) /\ unfolded # <<>>
    THEN [unfolded EXCEPT ![Len(unfolded)] = @ \o Tail(l)]
    ELSE Append(unfolded, l)

\* One pass of the loop body of _unfold.
UnfoldStep(unfolded, l) ==
    IF IsContinuation(l)
    THEN IF unfolded # <<>>
         THEN [unfolded EXCEPT ![Len(unfolded)] = @ \o Tail(l)]
         ELSE unfolded
    ELSE Append(unfolded, l)

RECURSIVE UnfoldLoop(_, _)
UnfoldLoop(ls, unfolded) ==
    IF ls = <<>> THEN unfolded
    ELSE UnfoldLoop(Tail(ls), UnfoldStep(unfolded, Head(ls)))

Unfold(t) == UnfoldLoop(SplitLines(t), <<>>)

----------------------------------------------------------------------------
(* _parse_dav *)

\* A dict value: a str (list = FALSE, vals = <<v>>) or a list of str.
Scalar(v)   == [list |-> FALSE, vals |-> <<v>>]
ListOf(vs)  == [list |-> TRUE,  vals |-> vs]

\* The key both _parse_dav and _apply_edits derive from a logical line:
\* l.split(":", 1)[0].split(";")[0]
Key(l) == Before(Before(l, COLON), SEMI)

\* A dict is the sequence of its items in insertion order: [k, v] records.
DictHas(d, k) == \E i \in 1..Len(d) : d[i].k = k
DictIdx(d, k) == CHOOSE i \in 1..Len(d) : d[i].k = k
DictKeys(d)   == {d[i].k : i \in 1..Len(d)}

\* The accumulation with a repeated field put in front of the list.
AccumulatePrepends(d, k, v) ==
    IF ~DictHas(d, k) THEN Append(d, [k |-> k, v |-> Scalar(v)])
    ELSE LET i == DictIdx(d, k) IN
         IF d[i].v.list
         THEN [d EXCEPT ![i].v = ListOf(<<v>> \o @.vals)]
         ELSE [d EXCEPT ![i].v = ListOf(<<@.vals[1], v>>)]

\* The three branches that store value v under key k.
Accumulate(d, k, v) ==
    IF ~DictHas(d, k) THEN Append(d, [k |-> k, v |-> Scalar(v)])
    ELSE LET i == DictIdx(d, k) IN
         IF d[i].v.list
         THEN [d EXCEPT ![i].v = ListOf(Append(@.vals, v))]
         ELSE [d EXCEPT ![i].v = ListOf(<<@.vals[1], v>>)]

\* The loop body with the component delimiter lines left out of the dict.
ParseStepSkipsDelimiters(d, l) ==
    IF Has(l, COLON) /\ Key(l) \notin {<<"BEGIN">>, <<"END">>}
    THEN Accumulate(d, Key(l), After(l, COLON))
    ELSE d

\* The loop body of _parse_dav.
ParseStep(d, l) ==
    IF Has(l, COLON) THEN Accumulate(d, Key(l), After(l, COLON)) ELSE d

RECURSIVE ParseLoop(_, _)
ParseLoop(ls, d) ==
    IF ls = <<>> THEN d ELSE ParseLoop(Tail(ls), ParseStep(d, Head(ls)))

\* The dict _parse_dav hands to json.dumps.
ParseDav(t) == ParseLoop(Unfold(t), <<>>)

----------------------------------------------------------------------------
(* json.dumps and json.loads on the values the Contacts tools pass: a dict
   of str and list of str, and a list of str *)

RECURSIVE JoinWith(_, _)
\* sep.join(ss) for a separator of several atoms
JoinWith(ss, sep) ==
    IF ss = <<>> THEN <<>>
    ELSE IF Len(ss) = 1 THEN Head(ss)
    ELSE Head(ss) \o sep \o JoinWith(Tail(ss), sep)

\* The escape json.dumps writes for one character of a str.
EscapeAtom(a) ==
    CASE a = QUOTE -> <<BSL, QUOTE>>
      [] a = BSL   -> <<BSL, BSL>>
      [] a = TAB   -> <<BSL, "t">>
      [] a = NL    -> <<BSL, "n">>
      [] a = CR    -> <<BSL, "r">>
      [] OTHER     -> <<a>>

RECURSIVE EscapeText(_)
EscapeText(t) == IF t = <<>> THEN <<>> ELSE EscapeAtom(Head(t)) \o EscapeText(Tail(t))

\* json.dumps(s) for a str
JsonStr(t) == <<QUOTE>> \o EscapeText(t) \o <<QUOTE>>

\* json.dumps(ss) for a list of str
JsonDumpsList(ss) ==
    <<LBRACK>> \o JoinWith([i \in 1..Len(ss) |-> JsonStr(ss[i])], <<COMMA, SP>>)
               \o <<RBRACK>>

\* json.dumps(d) for the dict of _parse_dav
JsonDumpsDict(d) ==
    <<LBRACE>>
    \o JoinWith([i \in 1..Len(d) |->
                   JsonStr(d[i].k) \o <<COLON, SP>>
                   \o (IF d[i].v.list THEN JsonDumpsList(d[i].v.vals)
                                      ELSE JsonStr(d[i].v.vals[1]))],
                <<COMMA, SP>>)
    \o <<RBRACE>>

\* What a parser step yields: whether the text was accepted, the value read,
\* and the position after it.
Rejected == [ok |-> FALSE, val |-> <<>>, next |-> 0]
Accepted(v, n) == [ok |-> TRUE, val |-> v, next |-> n]

\* The character an escape stands for.
UnescapeAtom(a) ==
    CASE a = "t" -> TAB
      [] a = "n" -> NL
      [] a = "r" -> CR
      [] OTHER   -> a

\* How many backslashes stand right before position p, from position lo on.
BslRun(t, lo, p) ==
    p - 1 - (CHOOSE k \in (lo - 1)..(p - 1) :
                /\ k = lo - 1 \/ t[k] # BSL
                /\ \A m \in (k + 1)..(p - 1) : t[m] = BSL)

\* The character at position p of the string that starts at lo is not the
\* second character of an escape.
Plain(t, lo, p) == BslRun(t, lo, p) % 2 = 0

\* The least member of a non-empty set of positions.
Least(ps) == CHOOSE j \in ps : \A m \in ps : j <= m

\* The characters at the positions idx with their escapes undone.
Unescaped(t, lo, idx) ==
    [n \in 1..Len(idx) |->
        IF Plain(t, lo, idx[n]) THEN t[idx[n]] ELSE UnescapeAtom(t[idx[n]])]

\* The string between the quote at position i and the quote at position j:
\* every backslash that opens an escape is left out.
Between(t, i, j) ==
    Accepted(Unescaped(t, i + 1,
                       SelectSeq([p \in 1..(j - i - 1) |-> i + p],
                                 LAMBDA p : ~(t[p] = BSL /\ Plain(t, i + 1, p)))),
             j + 1)

\* The string that opens at position i and closes at the first of the
\* closing quotes ends.
ClosedAt(t, i, ends) == IF ends = {} THEN Rejected ELSE Between(t, i, Least(ends))

\* A JSON string that starts at position i: it runs up to the first quote
\* that is not escaped.
ReadStr(t, i) ==
    IF i <= Len(t) /\ t[i] = QUOTE
    THEN ClosedAt(t, i, {j \in (i + 1)..Len(t) : t[j] = QUOTE /\ Plain(t, i + 1, j)})
    ELSE Rejected

RECURSIVE ReadStrs(_, _, _)
\* The array goes on after its element r: it ends, or another element follows.
AfterElement(t, r, acc) ==
    IF ~r.ok THEN Rejected
    ELSE IF r.next <= Len(t) /\ t[r.next] = RBRACK
         THEN Accepted(Append(acc, r.val), r.next + 1)
    ELSE IF r.next + 1 <= Len(t) /\ t[r.next] = COMMA /\ t[r.next + 1] = SP
         THEN ReadStrs(t, r.next + 2, Append(acc, r.val))
    ELSE Rejected

\* The elements of a JSON array of strings, from the element at position i.
ReadStrs(t, i, acc) == AfterElement(t, ReadStr(t, i), acc)

\* A JSON array of strings that starts at position i.
ReadList(t, i) ==
    IF i + 1 <= Len(t) /\ t[i] = LBRACK
    THEN IF t[i + 1] = RBRACK THEN Accepted(<<>>, i + 2) ELSE ReadStrs(t, i + 1, <<>>)
    ELSE Rejected

\* The dict value a parsed array or a parsed string stands for.
AsListValue(r) == IF r.ok THEN Accepted(ListOf(r.val), r.next) ELSE Rejected
AsStrValue(r)  == IF r.ok THEN Accepted(Scalar(r.val), r.next) ELSE Rejected

\* A member value: a string or an array of strings.
ReadValue(t, i) ==
    IF i <= Len(t) /\ t[i] = LBRACK
    THEN AsListValue(ReadList(t, i))
    ELSE AsStrValue(ReadStr(t, i))

RECURSIVE ReadItems(_, _, _)
\* The object goes on after the member with key k and value v: it ends, or
\* another member follows.
AfterMember(t, k, v, acc) ==
    IF ~v.ok THEN Rejected
    ELSE IF v.next <= Len(t) /\ t[v.next] = RBRACE
         THEN Accepted(Append(acc, [k |-> k.val, v |-> v.val]), v.next + 1)
    ELSE IF v.next + 1 <= Len(t) /\ t[v.next] = COMMA /\ t[v.next + 1] = SP
         THEN ReadItems(t, v.next + 2, Append(acc, [k |-> k.val, v |-> v.val]))
    ELSE Rejected

\* The member goes on after its key k: ": " and the value.
AfterKey(t, k, acc) ==
    IF ~k.ok \/ k.next + 1 > Len(t) \/ t[k.next] # COLON \/ t[k.next + 1] # SP
    THEN Rejected
    ELSE AfterMember(t, k, ReadValue(t, k.next + 2), acc)

\* The members of a JSON object, from the member at position i.
ReadItems(t, i, acc) == AfterKey(t, ReadStr(t, i), acc)

\* The parse r took in all of t.
Whole(t, r) == IF r.ok /\ r.next = Len(t) + 1 THEN r ELSE Rejected

\* json.loads(t) for a text that should hold a list of str; not ok when
\* json.loads raises.
JsonLoadsList(t) == Whole(t, ReadList(t, 1))

\* json.loads(t) for a text that should hold a dict of str and list of str.
JsonLoadsDict(t) ==
    IF Len(t) >= 2 /\ t[1] = LBRACE
    THEN IF t[2] = RBRACE
         THEN (IF Len(t) = 2 THEN Accepted(<<>>, 3) ELSE Rejected)
         ELSE Whole(t, ReadItems(t, 2, <<>>))
    ELSE Rejected

----------------------------------------------------------------------------
(* _apply_edits *)

\* set(updates.keys())
UpdateKeys(u) == {u[i].k : i \in 1..Len(u)}

\* The first loop with the lines that hold no ":" left out as well.
KeptLinesDropsColonless(ls, keys) ==
    SelectSeq(ls, LAMBDA l : Has(l, COLON) /\ Key(l) \notin keys)

\* The first loop: the logical lines whose key is not an update key.
KeptLines(ls, keys) == SelectSeq(ls, LAMBDA l : Key(l) \notin keys)

EndVCard  == <<"END", COLON, "VCARD">>
EndVEvent == <<"END", COLON, "VEVENT">>
EndVTodo  == <<"END", COLON, "VTODO">>
BeginVEvent == <<"BEGIN", COLON, "VEVENT">>

\* The tag the second loop looks for: the literal of Contacts.py, the
\* conditional expression of Calendar.py.
EndTag(knd, original) ==
    IF knd = "Contacts" THEN EndVCard
    ELSE IF Contains(original, BeginVEvent) THEN EndVEvent ELSE EndVTodo

\* The lines of one item: f"{k}:{i}" per element of a list, f"{k}:{v}" otherwise.
ItemLines(item) == [j \in 1..Len(item.v.vals) |-> item.k \o <<COLON>> \o item.v.vals[j]]

RECURSIVE UpdateLines(_)
\* for k, v in updates.items(): the lines the update set contributes
UpdateLines(u) ==
    IF u = <<>> THEN <<>> ELSE ItemLines(Head(u)) \o UpdateLines(Tail(u))

\* The second loop as the specification describes it: the last copied line is
\* popped when it starts with "END:", the default tag is used otherwise, and
\* the update lines go right before it.
InsertUpdatesPopLast(new_lines, u, end_tag) ==
    IF new_lines # <<>> /\ Len(new_lines[Len(new_lines)]) >= 2
       /\ SubSeq(new_lines[Len(new_lines)], 1, 2) = <<"END", COLON>>
    THEN SubSeq(new_lines, 1, Len(new_lines) - 1) \o UpdateLines(u)
         \o <<new_lines[Len(new_lines)]>>
    ELSE new_lines \o UpdateLines(u) \o <<end_tag>>

RECURSIVE InsertLoop(_, _, _, _, _)
InsertLoop(ls, u, end_tag, final_lines, inserted) ==
    IF ls = <<>> THEN final_lines
    ELSE IF Strip(Head(ls)) = end_tag /\ ~inserted
         THEN InsertLoop(Tail(ls), u, end_tag,
                         Append(final_lines \o UpdateLines(u), Head(ls)), TRUE)
         ELSE InsertLoop(Tail(ls), u, end_tag, Append(final_lines, Head(ls)), inserted)

\* The second loop: final_lines, with the update lines before the first line
\* that strips to end_tag, and nowhere when no line does.
InsertUpdates(new_lines, u, end_tag) == InsertLoop(new_lines, u, end_tag, <<>>, FALSE)

ApplyEdits(knd, original, u) ==
    Join(InsertUpdates(KeptLines(Unfold(original), UpdateKeys(u)), u,
                       EndTag(knd, original)),
         NL)

----------------------------------------------------------------------------
(* Inputs *)

\* The most physical lines a generated text holds.
MaxLines == 3

SeqsUpTo(S, n) == UNION {[1..m -> S] : m \in 0..n}

\* Every text of at most MaxLines physical lines of the pool, joined by "\n".
TextsOf(pool) == {Join(ls, NL) : ls \in SeqsUpTo(pool, MaxLines)}

\* Physical lines for the decoder: plain, folded (space and tab), with
\* parameters, with a group prefix, without ":", empty, ended by "\r\n", with
\* ":", ";" and backslash escapes in the value, and a component delimiter.
DecodePool ==
    { <<"SUMMARY", COLON, "Hello">>,
      <<"NOTE", COLON, "a", SEMI, "b", COLON, BSL, "n", BSL, ",", BSL, SEMI>>,
      EndVCard,
      <<SP, "World">>,
      <<TAB, "x", COLON, "y">>,
      <<"EMAIL", COLON, "a">>,
      <<"EMAIL", SEMI, "TYPE=HOME", COLON, "y">>,
      <<"item1", DOT, "ADR", SEMI, "TYPE=HOME", COLON, "x">>,
      <<"NOCOLON", CR>>,
      <<>> }

\* Physical lines of a vCard.
ContactsPool ==
    { <<"BEGIN", COLON, "VCARD">>,
      EndVCard,
      <<"FN", COLON, "Alice">>,
      <<"item1", DOT, "FN", SEMI, "T", COLON, "Bob">>,
      <<"UID", COLON, "u1">>,
      <<SP, "x">>,
      <<SP, SP, "x">>,
      <<>> }

\* Physical lines of a calendar object.
CalendarPool ==
    { BeginVEvent,
      EndVEvent,
      EndVTodo,
      <<"SUMMARY", COLON, "Hello">>,
      <<"STATUS", SEMI, "T", COLON, "NEEDS-ACTION">>,
      <<SP, "x">>,
      <<>> }

\* The contact of the patch scenario.
AliceCard ==
    Join(<< <<"BEGIN", COLON, "VCARD">>, <<"VERSION", COLON, "3", DOT, "0">>,
            <<"UID", COLON, "u1">>, <<"FN", COLON, "Alice">>, EndVCard >>, NL)

\* The task new_task writes (no due date), with the uid and timestamp fixed.
NewTask ==
    Join(<< <<"BEGIN", COLON, "VCALENDAR">>, <<"BEGIN", COLON, "VTODO">>,
            <<"UID", COLON, "u1">>, <<"SUMMARY", COLON, "Hello">>,
            <<"STATUS", COLON, "NEEDS-ACTION">>, EndVTodo,
            <<"END", COLON, "VCALENDAR">> >>, NL)

Item(k, v) == [k |-> k, v |-> v]

\* Update mappings an agent can send to edit_contact.
ContactsUpdates ==
    { <<>>,
      << Item(<<"FN">>, Scalar(<<"Alicia">>)) >>,
      << Item(<<"FN">>, ListOf(<< <<"a">>, <<"b">> >>)) >>,
      << Item(<<"FN">>, ListOf(<<>>)) >>,
      << Item(<<"UID">>, Scalar(<<"u2">>)), Item(<<"FN">>, ListOf(<< <<"a">>, <<"b">> >>)) >>,
      << Item(<<"UID">>, ListOf(<<>>)) >>,
      << Item(<<"TEL">>, Scalar(<<"555">>)) >>,
      << Item(<<"FN", SEMI, "T">>, Scalar(<<"Carol">>)) >>,
      << Item(<<"item1", DOT, "FN">>, Scalar(<<"Dan">>)) >>,
      << Item(<<"NOTE">>, Scalar(<<"a", NL, "b">>)) >>,
      << Item(<<"END">>, Scalar(<<"x">>)) >> }

\* Update mappings an agent can send to edit_event / edit_task, the one of
\* complete_task among them.
CalendarUpdates ==
    { <<>>,
      << Item(<<"SUMMARY">>, Scalar(<<"New">>)) >>,
      << Item(<<"SUMMARY">>, ListOf(<< <<"a">>, <<"b">> >>)) >>,
      << Item(<<"STATUS">>, Scalar(<<"COMPLETED">>)),
         Item(<<"PERCENT-COMPLETE">>, Scalar(<<"100">>)) >>,
      << Item(<<"STATUS", SEMI, "T">>, Scalar(<<"x">>)) >>,
      << Item(<<"BEGIN">>, Scalar(<<"x">>)) >>,
      << Item(<<"END">>, Scalar(<<"x">>)) >> }

Kinds == {"Contacts", "Calendar"}

PatchTexts(knd) ==
    IF knd = "Contacts" THEN TextsOf(ContactsPool) \cup {AliceCard}
    ELSE TextsOf(CalendarPool) \cup {NewTask}

PatchUpdates(knd) == IF knd = "Contacts" THEN ContactsUpdates ELSE CalendarUpdates

\* No helper was called directly.
NoCodec ==
    /\ text = <<>> /\ updates = <<>> /\ pc = "start"
    /\ lines = <<>> /\ data = <<>> /\ out = <<>> /\ out2 = <<>>

\* The threads that call helpers of one Tools instance.
Threads == {"t1", "t2"}

\* self.valves as __init__ leaves it.
DefaultValves ==
    [CARDDAV_URL |-> <<>>, USERNAME |-> <<>>, PASSWORD |-> <<>>, MAX_RETRIES |-> 3]

\* No delete_contact call is running.
NoDelete ==
    /\ book = <<>>
    /\ query = <<>>
    /\ del = [pc |-> "idle"]

\* No public tool of the request layer is running.
NoTool == call = [pc |-> "idle"]

\* No thread calls a helper.
NoHelperCalls ==
    /\ args = [t \in Threads |-> [fn |-> "none"]]
    /\ frames = [t \in Threads |-> [lines |-> <<>>]]
    /\ tpc = [t \in Threads |-> "idle"]
    /\ ret = [t \in Threads |-> <<>>]
    /\ overlap = {}

NoThreads == valves = DefaultValves /\ NoHelperCalls

\* The calls that may run an edit tool.
Editors == {"a", "b"}

\* No edit tool is running and no request was sent.
NoEdit ==
    /\ store = <<>>
    /\ ed = [e \in Editors |-> [pc |-> "idle"]]
    /\ sent = <<>>

----------------------------------------------------------------------------
(* The decoder: one text, then _unfold or _parse_dav on it *)

InitDecode ==
    /\ kind \in Kinds
    /\ text \in TextsOf(DecodePool) \cup {AliceCard, NewTask}
    /\ updates = <<>>
    /\ pc = "start"
    /\ lines = <<>>
    /\ data = <<>>
    /\ out = <<>>
    /\ out2 = <<>>
    /\ NoEdit
    /\ NoThreads
    /\ NoDelete
    /\ NoTool

CallUnfold ==
    /\ pc = "start"
    /\ lines' = Unfold(text)
    /\ pc' = "unfolded"
    /\ UNCHANGED <<kind, text, updates, data, out, out2>>
    /\ UNCHANGED <<editVars, threadVars, deleteVars, toolVars>>

CallParseDav ==
    /\ pc = "start"
    /\ data' = ParseDav(text)
    /\ pc' = "parsed"
    /\ UNCHANGED <<kind, text, updates, lines, out, out2>>
    /\ UNCHANGED <<editVars, threadVars, deleteVars, toolVars>>

NextDecode == CallUnfold \/ CallParseDav

SpecDecode == InitDecode /\ [][NextDecode]_vars

----------------------------------------------------------------------------
(* The patcher: one text and one update mapping, then _apply_edits, and
   _apply_edits once more on its result *)

Init ==
    /\ kind \in Kinds
    /\ text \in PatchTexts(kind)
    /\ updates \in PatchUpdates(kind)
    /\ pc = "start"
    /\ lines = <<>>
    /\ data = <<>>
    /\ out = <<>>
    /\ out2 = <<>>
    /\ NoEdit
    /\ NoThreads
    /\ NoDelete
    /\ NoTool

CallApplyEdits ==
    /\ pc = "start"
    /\ out' = ApplyEdits(kind, text, updates)
    /\ pc' = "patched"
    /\ UNCHANGED <<kind, text, updates, lines, data, out2>>
    /\ UNCHANGED <<editVars, threadVars, deleteVars, toolVars>>

CallApplyEditsAgain ==
    /\ pc = "patched"
    /\ out2' = ApplyEdits(kind, out, updates)
    /\ pc' = "patched2"
    /\ UNCHANGED <<kind, text, updates, lines, data, out>>
    /\ UNCHANGED <<editVars, threadVars, deleteVars, toolVars>>

Next == CallApplyEdits \/ CallApplyEditsAgain

Spec == Init /\ [][Next]_vars

----------------------------------------------------------------------------
(* edit_contact, edit_event, edit_task, complete_task: GET the record, patch
   it with _apply_edits, PUT the result to the same URL.  Two calls may run
   at once on one record.  A text travels as UTF-8 and the atoms stand for
   ASCII text, so the body the server stores is the text that was sent. *)

\* A JSON value inside updates_json, with the text str() gives for it once
\* json.loads has turned it into a Python value (None for a list).
JStr(s)  == [t |-> "string", s |-> s,    elems |-> <<>>]
JNum(s)  == [t |-> "number", s |-> s,    elems |-> <<>>]
JObj(s)  == [t |-> "object", s |-> s,    elems |-> <<>>]
JArr(es) == [t |-> "array",  s |-> <<>>, elems |-> es]

\* The updates_json argument: "invalid" is a text json.loads rejects, the
\* other documents are named by the type of their top-level value; items are
\* the members of a top-level object, in order.
Doc(t, items) == [t |-> t, items |-> items]

\* json.dumps({"STATUS": "COMPLETED", "PERCENT-COMPLETE": "100"})
CompleteTaskDoc ==
    Doc("object", << Item(<<"STATUS">>, JStr(<<"COMPLETED">>)),
                     Item(<<"PERCENT-COMPLETE">>, JStr(<<"100">>)) >>)

\* Documents an agent can send as updates_json.
EditDocs(knd) ==
    IF knd = "Contacts"
    THEN { Doc("invalid", <<>>), Doc("array", <<>>), Doc("number", <<>>),
           Doc("object", << Item(<<"TEL">>, JStr(<<"555">>)) >>),
           Doc("object", << Item(<<"FN">>, JStr(<<"Bob">>)) >>),
           Doc("object", << Item(<<"EMAIL">>, JArr(<<JStr(<<"a">>), JStr(<<"b">>)>>)) >>),
           Doc("object", << Item(<<"TEL">>, JNum(<<"5">>)) >>),
           Doc("object", << Item(<<"X-GEO">>, JObj(<<"{'a'", COLON, SP, "1}">>)) >>) }
    ELSE { Doc("invalid", <<>>), Doc("array", <<>>),
           Doc("object", << Item(<<"SUMMARY">>, JStr(<<"New">>)) >>),
           Doc("object", << Item(<<"LOCATION">>, JStr(<<"Room">>)) >>),
           Doc("object", << Item(<<"PRIORITY">>, JNum(<<"5">>)) >>) }

\* The tools of each class that patch a stored record.
EditTools(knd) ==
    IF knd = "Contacts" THEN {"edit_contact"}
    ELSE {"edit_event", "edit_task", "complete_task"}

\* The updates_json that reaches edit_event / edit_contact: edit_task hands
\* its argument on, complete_task hands on its own document.
UpdatesJson(tool, arg) == IF tool = "complete_task" THEN CompleteTaskDoc ELSE arg

\* json.loads(updates_json) raises, or updates.keys() raises in _apply_edits.
Raises(doc) == doc.t # "object"

\* str(e) of the exception raised for doc.
ErrorText(doc) ==
    CASE doc.t = "invalid" ->
           <<"Expecting", SP, "value", COLON, SP, "line", SP, "1", SP,
             "column", SP, "1", SP, "(char", SP, "0)">>
      [] doc.t = "array" ->
           <<"'list'", SP, "object", SP, "has", SP, "no", SP, "attribute", SP, "'keys'">>
      [] doc.t = "number" ->
           <<"'int'", SP, "object", SP, "has", SP, "no", SP, "attribute", SP, "'keys'">>
      [] OTHER -> <<>>

\* The update mapping as _apply_edits reads it: a list value gives one
\* "key:item" line per item, any other value the single line "key:value",
\* each through str() inside an f-string.
AsUpdates(items) ==
    [i \in 1..Len(items) |->
        Item(items[i].k,
             IF items[i].v.t = "array"
             THEN ListOf([j \in 1..Len(items[i].v.elems) |-> items[i].v.elems[j].s])
             ELSE Scalar(items[i].v.s))]

\* A vCard whose FN line is folded.
FoldedCard ==
    Join(<< <<"BEGIN", COLON, "VCARD">>, <<"UID", COLON, "u1">>,
            <<"FN", COLON, "Ali">>, <<SP, "ce">>, EndVCard >>, NL)

\* A task another client worked on: two STATUS lines, one with a parameter,
\* and a progress value.
BusyTask ==
    Join(<< <<"BEGIN", COLON, "VCALENDAR">>, <<"BEGIN", COLON, "VTODO">>,
            <<"UID", COLON, "u2">>, <<"STATUS", SEMI, "X=1", COLON, "IN-PROCESS">>,
            <<"PERCENT-COMPLETE", COLON, "50">>, <<"SUMMARY", COLON, "Hello">>,
            <<"STATUS", COLON, "COMPLETED">>, EndVTodo,
            <<"END", COLON, "VCALENDAR">> >>, NL)

\* The task new_task writes for the summary "BEGIN:VEVENT".
QuotingTask ==
    Join(<< <<"BEGIN", COLON, "VCALENDAR">>, <<"BEGIN", COLON, "VTODO">>,
            <<"UID", COLON, "u3">>, <<"SUMMARY", COLON>> \o BeginVEvent,
            <<"STATUS", COLON, "NEEDS-ACTION">>, EndVTodo,
            <<"END", COLON, "VCALENDAR">> >>, NL)

\* The event new_event writes, with the uid fixed and the times left out.
NewEvent ==
    Join(<< <<"BEGIN", COLON, "VCALENDAR">>, BeginVEvent,
            <<"UID", COLON, "u4">>, <<"SUMMARY", COLON, "Hello">>, EndVEvent,
            <<"END", COLON, "VCALENDAR">> >>, NL)

\* Records the server may hold at the URL being edited.
EditRecords(knd) ==
    IF knd = "Contacts" THEN {AliceCard, FoldedCard}
    ELSE {NewTask, BusyTask, QuotingTask, NewEvent}

\* Status codes of the answers to GET and to PUT (503 is also what _request
\* makes of an exception).
GetStatuses == {200, 404, 503}
PutStatuses == {204, 403}

\* resp.text of an answer that is no success.
ErrorBody(status) ==
    CASE status = 404 -> <<"Not", SP, "Found">>
      [] status = 403 -> <<"Forbidden">>
      [] OTHER -> <<"timed", SP, "out">>

\* _handle_response
HandleResponse(status, body) ==
    IF status \in {200, 201, 204}
    THEN <<"Success", COLON, SP, ToString(status)>>
    ELSE <<"Error", SP, ToString(status), COLON, SP>> \o body

\* "Error reading contact" / "Error reading event"
ReadError(knd) ==
    <<"Error", SP, "reading", SP, IF knd = "Contacts" THEN "contact" ELSE "event">>

\* The calls an agent can make: a tool and its updates_json (for
\* complete_task, which takes none, the document it builds), no request sent yet.
EditCalls(knd) ==
    UNION {{[pc |-> "call", tool |-> t, arg |-> d,
             orig |-> <<>>, new |-> <<>>, result |-> <<>>] :
               d \in IF t = "complete_task" THEN {CompleteTaskDoc} ELSE EditDocs(knd)} :
           t \in EditTools(knd)}

InitEdit ==
    /\ kind \in Kinds
    /\ store \in EditRecords(kind)
    /\ ed \in [Editors -> EditCalls(kind)]
    /\ sent = <<>>
    /\ NoCodec
    /\ NoThreads
    /\ NoDelete
    /\ NoTool

\* The call goes on without looking at the status of the GET.
AfterGetUnchecked(c, status, body) ==
    LET doc == UpdatesJson(c.tool, c.arg) IN
    IF Raises(doc)
    THEN [c EXCEPT !.pc = "done", !.orig = body, !.result = ErrorText(doc)]
    ELSE [c EXCEPT !.pc = "patched", !.orig = body,
                   !.new = ApplyEdits(kind, body, AsUpdates(doc.items))]

\* The call from the answer to its GET up to its PUT: give up when the
\* status is not 200 or when the try block raises, else hold the patched text.
AfterGet(c, status, body) ==
    IF status # 200
    THEN [c EXCEPT !.pc = "done", !.result = ReadError(kind)]
    ELSE LET doc == UpdatesJson(c.tool, c.arg) IN
         IF Raises(doc)
         THEN [c EXCEPT !.pc = "done", !.orig = body, !.result = ErrorText(doc)]
         ELSE [c EXCEPT !.pc = "patched", !.orig = body,
                        !.new = ApplyEdits(kind, body, AsUpdates(doc.items))]

\* The PUT carries the update set and the server patches what it holds then.
PutBodyRebased(c) ==
    ApplyEdits(kind, store, AsUpdates(UpdatesJson(c.tool, c.arg).items))

\* data=new_c.encode('utf-8'): the text patched from what the GET returned.
PutBody(c) == c.new

\* orig = self._request("GET", url) and what follows up to the PUT.
EditGet(e) ==
    /\ ed[e].pc = "call"
    /\ \E status \in GetStatuses :
          /\ sent' = Append(sent, [m |-> "GET", by |-> e, status |-> status])
          /\ ed' = [ed EXCEPT ![e] =
                      AfterGet(@, status, IF status = 200 THEN store ELSE ErrorBody(status))]
    /\ UNCHANGED <<kind, store, codecVars, threadVars, deleteVars, toolVars>>

\* self._handle_response(self._request("PUT", url, data=...)): the server
\* takes the body when it answers with a success status.
EditPut(e) ==
    /\ ed[e].pc = "patched"
    /\ \E status \in PutStatuses :
          /\ sent' = Append(sent, [m |-> "PUT", by |-> e, status |-> status])
          /\ store' = IF status \in {200, 201, 204} THEN PutBody(ed[e]) ELSE store
          /\ ed' = [ed EXCEPT ![e].pc = "done",
                              ![e].result = HandleResponse(status, ErrorBody(status))]
    /\ UNCHANGED <<kind, codecVars, threadVars, deleteVars, toolVars>>

NextEdit == \E e \in Editors : EditGet(e) \/ EditPut(e)

SpecEdit == InitEdit /\ [][NextEdit]_vars

----------------------------------------------------------------------------
(* Two threads call _unfold, _parse_dav or _apply_edits on one Tools
   instance.  A call advances loop by loop; the other thread may run between
   any two of its steps. *)

\* Texts and update mappings the threads pass.
ThreadTexts(knd) ==
    IF knd = "Contacts"
    THEN {AliceCard, FoldedCard, <<SP, "x", NL, "FN", COLON, "Al", NL, TAB, "ice">>}
    ELSE {NewTask, BusyTask, <<SP, "x", NL, "SUMMARY", COLON, "a", NL, SP, "b">>}

ThreadUpdates(knd) ==
    IF knd = "Contacts"
    THEN { << Item(<<"FN">>, Scalar(<<"Bob">>)) >>,
           << Item(<<"UID">>, ListOf(<<>>)), Item(<<"TEL">>, ListOf(<< <<"1">>, <<"2">> >>)) >> }
    ELSE { << Item(<<"SUMMARY">>, Scalar(<<"New">>)) >>,
           << Item(<<"STATUS">>, Scalar(<<"COMPLETED">>)),
              Item(<<"PERCENT-COMPLETE">>, Scalar(<<"100">>)) >> }

\* The helper calls a thread can make.
HelperCalls(knd) ==
    {[fn |-> f, text |-> t, updates |-> <<>>] :
        f \in {"_unfold", "_parse_dav"}, t \in ThreadTexts(knd)}
    \cup {[fn |-> "_apply_edits", text |-> t, updates |-> u] :
        t \in ThreadTexts(knd), u \in ThreadUpdates(knd)}

InitThreads ==
    /\ kind \in Kinds
    /\ valves = DefaultValves
    /\ args \in [Threads -> HelperCalls(kind)]
    /\ frames = [t \in Threads |-> [lines |-> <<>>]]
    /\ tpc = [t \in Threads |-> "call"]
    /\ ret = [t \in Threads |-> <<>>]
    /\ overlap = {}
    /\ NoCodec
    /\ NoEdit
    /\ NoDelete
    /\ NoTool

\* One list on the instance serves every call.
SlotShared(t) == "t1"

\* Where the locals of thread t's call live: in the frame of that call.
Slot(t) == t

\* The threads other than t that are in the midst of a call.
MidCall(t) == {u \in Threads \ {t} : tpc[u] \in {"unfolded", "kept"}}

\* _unfold(text), called directly or as the first statement of _parse_dav
\* and _apply_edits; _unfold itself returns here.
StepUnfold(t) ==
    /\ tpc[t] = "call"
    /\ LET ls == Unfold(args[t].text) IN
       IF args[t].fn = "_unfold"
       THEN /\ ret' = [ret EXCEPT ![t] = ls]
            /\ tpc' = [tpc EXCEPT ![t] = "done"]
            /\ UNCHANGED frames
       ELSE /\ frames' = [frames EXCEPT ![Slot(t)].lines = ls]
            /\ tpc' = [tpc EXCEPT ![t] = "unfolded"]
            /\ UNCHANGED ret
    /\ overlap' = overlap \cup MidCall(t)
    /\ UNCHANGED <<kind, valves, args, codecVars, editVars, deleteVars, toolVars>>

\* The loop of _parse_dav over the unfolded lines, and its return.
StepParse(t) ==
    /\ tpc[t] = "unfolded"
    /\ args[t].fn = "_parse_dav"
    /\ ret' = [ret EXCEPT ![t] = ParseLoop(frames[Slot(t)].lines, <<>>)]
    /\ tpc' = [tpc EXCEPT ![t] = "done"]
    /\ overlap' = overlap \cup MidCall(t)
    /\ UNCHANGED <<kind, valves, args, frames, codecVars, editVars, deleteVars, toolVars>>

\* The first loop of _apply_edits.
StepKeep(t) ==
    /\ tpc[t] = "unfolded"
    /\ args[t].fn = "_apply_edits"
    /\ frames' = [frames EXCEPT ![Slot(t)].lines =
                     KeptLines(@, UpdateKeys(args[t].updates))]
    /\ tpc' = [tpc EXCEPT ![t] = "kept"]
    /\ overlap' = overlap \cup MidCall(t)
    /\ UNCHANGED <<kind, valves, args, ret, codecVars, editVars, deleteVars, toolVars>>

\* The second loop of _apply_edits and the join.
StepInsert(t) ==
    /\ tpc[t] = "kept"
    /\ ret' = [ret EXCEPT ![t] =
                 Join(InsertUpdates(frames[Slot(t)].lines, args[t].updates,
                                    EndTag(kind, args[t].text)), NL)]
    /\ tpc' = [tpc EXCEPT ![t] = "done"]
    /\ overlap' = overlap \cup MidCall(t)
    /\ UNCHANGED <<kind, valves, args, frames, codecVars, editVars, deleteVars, toolVars>>

NextThreads ==
    \E t \in Threads : StepUnfold(t) \/ StepParse(t) \/ StepKeep(t) \/ StepInsert(t)

SpecThreads == InitThreads /\ [][NextThreads]_vars

----------------------------------------------------------------------------
(* delete_contact: search_contacts(query), then at most one DELETE.  A query
   is made of whole atoms. *)

\* The most cards the address book holds.
MaxCards == 2

\* The address book URL of a configured instance.
BookUrl == <<"https", COLON, SLASH, SLASH, "dav", SLASH, "ab", SLASH>>

ConfiguredValves == [DefaultValves EXCEPT !.CARDDAV_URL = BookUrl]

Card(name, ls) == [name |-> <<name, DOT, "vcf">>, text |-> Join(ls, NL)]

\* Cards of the address book: the one new_contact writes, one stored by
\* another client under its own file name, one without UID, one with an empty
\* UID, one with two UID lines and double quotes in its name.
CardPool ==
    { [name |-> <<"u1", DOT, "vcf">>, text |-> AliceCard],
      Card("bob", << <<"BEGIN", COLON, "VCARD">>, <<"UID", COLON, "u2">>,
                     <<"FN", COLON, "Bob">>, EndVCard >>),
      Card("n", << <<"BEGIN", COLON, "VCARD">>, <<"FN", COLON, "Alice">>, EndVCard >>),
      Card("e", << <<"BEGIN", COLON, "VCARD">>, <<"UID", COLON>>,
                   <<"FN", COLON, "Eve">>, EndVCard >>),
      Card("u5", << <<"BEGIN", COLON, "VCARD">>, <<"UID", COLON, "u5">>,
                    <<"UID", COLON, "u6">>,
                    <<"FN", COLON, "Tom", SP, QUOTE, "T", QUOTE>>, EndVCard >>) }

\* The address books: up to MaxCards different cards, in the order the
\* server reports them.
Books ==
    {b \in SeqsUpTo(CardPool, MaxCards) :
        \A i, j \in 1..Len(b) : i # j => b[i] # b[j]}

Queries == { <<"Alice">>, <<"bob">>, <<"zed">>, <<"u5">>, <<>>, <<QUOTE, "t", QUOTE>> }

\* str.lower() on one atom (the atoms not listed have no upper-case letter).
LowerAtom(a) ==
    CASE a = "Alice" -> "alice" [] a = "Bob" -> "bob" [] a = "Eve" -> "eve"
      [] a = "Tom" -> "tom" [] a = "T" -> "t"
      [] a = "BEGIN" -> "begin" [] a = "END" -> "end" [] a = "VCARD" -> "vcard"
      [] a = "VERSION" -> "version" [] a = "UID" -> "uid" [] a = "FN" -> "fn"
      [] OTHER -> a

LowerText(t) == [i \in 1..Len(t) |-> LowerAtom(t[i])]

\* The loop of search_contacts: the decoded cards, as JSON texts, that hold
\* the lower-cased query.
Matches(b, q) ==
    SelectSeq([i \in 1..Len(b) |-> JsonDumpsDict(ParseDav(b[i].text))],
              LAMBDA d : Contains(LowerText(d), LowerText(q)))

NoMatches == <<"No", SP, "matches", DOT>>

\* str(e) of the exception ET.fromstring raises on a body that is no XML.
XmlError ==
    <<"unclosed", SP, "token", COLON, SP, "line", SP, "1", COMMA, SP, "column", SP, "0">>

\* What search_contacts returns once the REPORT is answered.
SearchResult(status, body, b, q) ==
    IF status >= 400 THEN <<"Error", COLON, SP, ToString(status)>>
    ELSE IF body = "broken" THEN XmlError
    ELSE IF Matches(b, q) = <<>> THEN NoMatches
    ELSE JsonDumpsList(Matches(b, q))

RECURSIVE RStripSlash(_)
RStripSlash(t) ==
    IF t # <<>> /\ t[Len(t)] = SLASH THEN RStripSlash(SubSeq(t, 1, Len(t) - 1)) ELSE t

RECURSIVE LStripSlash(_)
LStripSlash(t) == IF t # <<>> /\ Head(t) = SLASH THEN LStripSlash(Tail(t)) ELSE t

\* _join_url
JoinUrl(base, path) == RStripSlash(base) \o <<SLASH>> \o LStripSlash(path)

\* f"{uid}" for the value contact.get("UID") returned: the str itself, or
\* the repr of a list of str.
UidText(v) ==
    IF v.list
    THEN <<LBRACK>>
         \o JoinWith([i \in 1..Len(v.vals) |-> <<APOS>> \o v.vals[i] \o <<APOS>>],
                     <<COMMA, SP>>)
         \o <<RBRACK>>
    ELSE v.vals[1]

\* str(e) of the exception json.loads raises on a text that is no JSON.
JsonError ==
    <<"Expecting", SP, "value", COLON, SP, "line", SP, "1", SP,
      "column", SP, "1", SP, "(char", SP, "0)">>

GiveUp(msg) == [delete |-> FALSE, file |-> <<>>, result |-> msg]

ProcessingError(msg) ==
    GiveUp(<<"Error", SP, "processing", SP, "deletion", COLON, SP>> \o msg)

\* contact.get("UID"), then the DELETE of "<uid>.vcf" unless the value is
\* missing or empty.
DecideContact(contact) ==
    IF ~contact.ok THEN ProcessingError(JsonError)
    ELSE IF \/ ~DictHas(contact.val, <<"UID">>)
            \/ contact.val[DictIdx(contact.val, <<"UID">>)].v \in
                  {Scalar(<<>>), ListOf(<<>>)}
         THEN GiveUp(<<"Error", COLON, SP, "Contact", SP, "data", SP, "corrupted",
                       SP, "(No", SP, "UID)", DOT>>)
    ELSE [delete |-> TRUE,
          file |-> UidText(contact.val[DictIdx(contact.val, <<"UID">>)].v)
                     \o <<DOT, "vcf">>,
          result |-> <<>>]

\* The try block of delete_contact, given what json.loads(search_res) made.
DecideMatches(matches) ==
    IF ~matches.ok THEN ProcessingError(JsonError)
    ELSE IF Len(matches.val) > 1
         THEN GiveUp(<<"Error", COLON, SP, "Ambiguous", SP, "query", DOT, SP,
                       "Found", SP, ToString(Len(matches.val)), SP, "matches", DOT,
                       SP, "Please", SP, "be", SP, "more", SP, "specific", DOT>>)
    ELSE IF matches.val = <<>>
         THEN ProcessingError(<<"list", SP, "index", SP, "out", SP, "of", SP, "range">>)
    ELSE DecideContact(JsonLoadsDict(matches.val[1]))

\* delete_contact from the search result up to the DELETE: the message it
\* returns at once, or the file to delete.
Decide(search_res) ==
    IF search_res = NoMatches
    THEN GiveUp(<<"Error", COLON, SP, "Contact", SP, "not", SP, "found", DOT>>)
    ELSE DecideMatches(JsonLoadsList(search_res))

\* The book without the card stored under file name.
Without(b, file) == SelectSeq(b, LAMBDA c : c.name # file)

InitDelete ==
    /\ kind = "Contacts"
    /\ NoTool
    /\ valves \in {DefaultValves, ConfiguredValves}
    /\ book \in Books
    /\ query \in Queries
    /\ del = [pc |-> "call", search_res |-> <<>>, result |-> <<>>]
    /\ NoCodec
    /\ NoEdit
    /\ NoHelperCalls

\* search_res = self.search_contacts(query): with no URL configured _request
\* returns a str and resp.status_code raises AttributeError outside every try
\* block, so the call ends raising; else one REPORT is sent and its answer
\* is turned into the search result.
DeleteSearch ==
    /\ del.pc = "call"
    /\ IF valves.CARDDAV_URL = <<>>
       THEN /\ del' = [del EXCEPT !.pc = "raised"]
            /\ UNCHANGED sent
       ELSE \E status \in {207, 404, 503}, body \in {"multistatus", "broken"} :
               /\ sent' = Append(sent, [m |-> "REPORT", url |-> valves.CARDDAV_URL,
                                        status |-> status])
               /\ del' = [del EXCEPT !.pc = "searched",
                             !.search_res = SearchResult(status, body, book, query)]
    /\ UNCHANGED <<kind, codecVars, store, ed, threadVars, book, query, toolVars>>

\* The rest of delete_contact: return the message, or send the DELETE for
\* "<uid>.vcf" and return what _handle_response makes of the answer; the
\* server removes the card of that name when it answers 204.
FinishWith(d) ==
    IF ~d.delete
    THEN /\ del' = [del EXCEPT !.pc = "done", !.result = d.result]
         /\ UNCHANGED <<sent, book>>
    ELSE \E status \in (IF \E i \in 1..Len(book) : book[i].name = d.file
                        THEN {204, 503} ELSE {404, 503}) :
            /\ sent' = Append(sent, [m |-> "DELETE",
                                     url |-> JoinUrl(valves.CARDDAV_URL, d.file),
                                     status |-> status])
            /\ book' = IF status = 204 THEN Without(book, d.file) ELSE book
            /\ del' = [del EXCEPT !.pc = "done",
                          !.result = HandleResponse(status, ErrorBody(status))]

DeleteFinish ==
    /\ del.pc = "searched"
    /\ FinishWith(Decide(del.search_res))
    /\ UNCHANGED <<kind, codecVars, store, ed, threadVars, query, toolVars>>

NextDelete == DeleteSearch \/ DeleteFinish

SpecDelete == InitDelete /\ [][NextDelete]_vars

----------------------------------------------------------------------------
(* The request layer of the four tool classes: Valves, _request,            *)
(* _handle_response, and what the server and the network may answer         *)

LPAREN == "("
RPAREN == ")"

\* The Tools classes: Contacts.py, Calendar.py, Files.py, DAV.py.
Modules == Kinds \cup {"Files", "DAV"}

\* t with single spaces between its words.
Words(t) == Join([i \in 1..Len(t) |-> <<t[i]>>], SP)

\* A WebDAV base URL of a Nextcloud server, one of a plain server, and a
\* calendar URL.
FilesUrl == <<"https", COLON, SLASH, SLASH, "dav", SLASH, "files", SLASH, "u", SLASH>>
PlainUrl == <<"https", COLON, SLASH, SLASH, "host", SLASH, "share", SLASH>>
CalUrl   == <<"https", COLON, SLASH, SLASH, "dav", SLASH, "cal", SLASH>>

\* The URL valves of a Tools class.
UrlValves(k) ==
    CASE k = "Contacts" -> {"CARDDAV_URL"}
      [] k = "Calendar" -> {"CALDAV_URL"}
      [] k = "Files"    -> {"WEBDAV_BASE_URL"}
      [] k = "DAV"      -> {"WEBDAV_BASE_URL", "CALDAV_URL", "CARDDAV_URL"}

\* The values an agent's operator may give a URL valve; the empty text is
\* the default.
UrlChoices(v) ==
    CASE v = "WEBDAV_BASE_URL" -> {<<>>, FilesUrl, PlainUrl}
      [] v = "CALDAV_URL"      -> {<<>>, CalUrl}
      [] v = "CARDDAV_URL"     -> {<<>>, BookUrl}

\* self.valves with the given URL valves, the other fields at their defaults.
ValvesWith(urls) ==
    [n \in DOMAIN urls \cup {"USERNAME", "PASSWORD", "MAX_RETRIES"} |->
        IF n \in DOMAIN urls THEN urls[n]
        ELSE IF n = "MAX_RETRIES" THEN DefaultValves.MAX_RETRIES ELSE <<>>]

ValveChoices(k) ==
    {ValvesWith(u) : u \in {f \in [UrlValves(k) -> UNION {UrlChoices(v) : v \in UrlValves(k)}] :
                                \A v \in UrlValves(k) : f[v] \in UrlChoices(v)}}

\* What http.request does with a request: the sending raises (no connection,
\* retries exhausted), or the server answers with a status and a body.  A body
\* is well-formed XML with the entries asked for ("multistatus"), well-formed
\* XML without any ("empty"), no XML ("broken"), or, for GET, the stored text.
Statuses == {200, 201, 204, 207, 403, 404, 405, 501, 503}
Bodies == {"multistatus", "empty", "broken"}
Outcomes ==
    {[raised |-> TRUE, status |-> 0, body |-> "none"]}
    \cup {[raised |-> FALSE, status |-> s, body |-> b] : s \in Statuses, b \in Bodies}

\* requests refuses a URL without scheme before it sends anything.
HasScheme(url) == Contains(url, <<COLON, SLASH, SLASH>>)

\* str(e) of the exception the sending raised.
SendError(url) ==
    IF HasScheme(url) THEN Words(<<"Max", "retries", "exceeded">>)
    ELSE Words(<<"Invalid", "URL">>) \o <<SP, APOS>> \o url \o <<APOS, COLON, SP>>
         \o Words(<<"No", "scheme", "supplied">>) \o <<DOT>>

\* The value _request returns when the URL is empty: a str in Contacts.py,
\* Calendar.py and Files.py (obj is FALSE: it has no status_code), an object
\* with status_code 400 in DAV.py.
ConfigMissing ==
    <<"Error", COLON, SP>> \o Words(<<"Configuration", "missing">>) \o <<DOT, SP>>
    \o Words(<<"Please", "set", "the", "URL">>)
    \o <<SP, LPAREN, "WEBDAV_BASE_URL", COMMA, SP, "CALDAV_URL", COMMA, SP, "or", SP,
          "CARDDAV_URL", RPAREN, SP>>
    \o Words(<<"in", "the", "Tool", "Settings">>) \o <<SP, LPAREN, "Valves", RPAREN, DOT>>

NotConfiguredText(k) ==
    <<"Error", COLON, SP>>
    \o Words(<<CASE k = "Contacts" -> "CARDDAV_URL" [] k = "Calendar" -> "CALDAV_URL"
                 [] OTHER -> "WEBDAV_BASE_URL",
               "is", "not", "configured">>) \o <<DOT>>

NotConfigured(k) ==
    IF k = "DAV"
    THEN [obj |-> TRUE, status |-> 400, text |-> ConfigMissing, body |-> "broken"]
    ELSE [obj |-> FALSE, status |-> 0, text |-> NotConfiguredText(k), body |-> "none"]

\* An exception of the sending turned into a response with status_code 204.
DummyResponseNoContent(k, url) ==
    [obj |-> TRUE, status |-> 204, body |-> "broken", text |-> SendError(url)]

\* The object _request makes of an exception: status_code 503 and the error
\* text.
DummyResponse(k, url) ==
    [obj |-> TRUE, status |-> 503, body |-> "broken",
     text |-> IF k = "DAV"
              THEN Words(<<"Connection", "failed", "after", ToString(DefaultValves.MAX_RETRIES),
                           "retries">>) \o <<DOT, SP, "details", COLON, SP>> \o SendError(url)
              ELSE SendError(url)]

\* The response object of an answer of the server.
Answer(o) ==
    [obj |-> TRUE, status |-> o.status, body |-> o.body,
     text |-> IF o.status < 400 THEN <<o.body>> ELSE ErrorBody(o.status)]

\* Whether http.request is reached, and whether it puts a request on the wire.
Attempted(url) == url # <<>>
OnWire(url) == url # <<>> /\ HasScheme(url)

\* The outcomes http.request can have for the URL.
OutcomesFor(url) ==
    IF OnWire(url) THEN Outcomes ELSE {[raised |-> TRUE, status |-> 0, body |-> "none"]}

\* _request(method, url) when http.request has outcome o.
Request(k, url, o) ==
    IF url = <<>> THEN NotConfigured(k)
    ELSE IF o.raised THEN DummyResponse(k, url)
    ELSE Answer(o)

\* _handle_response of DAV.py and Files.py (the success codes are an
\* argument) and of Contacts.py and Calendar.py.
HandleResponseOf(k, resp, success) ==
    IF resp.status \in success
    THEN <<"Success", COLON, SP, ToString(resp.status)>>
    ELSE <<"Error", SP, ToString(resp.status), COLON, SP>> \o resp.text

----------------------------------------------------------------------------
(* What the server holds, and what the tools make of its answers *)

\* The arguments of the calls: the path or file name, and the query.
PathOf(k) ==
    CASE k = "Contacts" -> <<"u1", DOT, "vcf">>
      [] k = "Calendar" -> <<"u4", DOT, "ics">>
      [] OTHER -> <<"p">>

FileQuery == <<"notes">>
EventQuery == <<"hello">>
ContactQuery == <<"alice">>

\* A stored JSON file and json.dumps(json.loads(it), indent=2).
JsonFile == <<LBRACE, QUOTE, "a", QUOTE, COLON, "1", RBRACE>>
JsonFilePretty == <<LBRACE, NL, SP, SP, QUOTE, "a", QUOTE, COLON, SP, "1", NL, RBRACE>>

\* response.text of a GET answered 200: the stored record or file, an empty
\* text, or a text that is neither a record nor JSON.
GetText(k, body) ==
    CASE body = "empty" -> <<>>
      [] body = "broken" -> Words(<<"Error", "log">>)
      [] k = "Contacts" -> AliceCard
      [] k = "Calendar" -> NewEvent
      [] OTHER -> JsonFile

\* The d:response entries of a well-formed PROPFIND or SEARCH answer.
DavPath == <<SLASH, "dav", SLASH, "files", SLASH, "u", SLASH>>
Entries(body) ==
    IF body = "multistatus"
    THEN << [href |-> DavPath, dir |-> TRUE],
            [href |-> DavPath \o <<"my", "%20", "notes", DOT, "txt">>, dir |-> FALSE] >>
    ELSE <<>>

\* The calendar-data / address-data nodes of a well-formed REPORT answer.
Nodes(valve, body) ==
    IF body # "multistatus" THEN <<>>
    ELSE IF valve = "CALDAV_URL" THEN <<NewEvent>> ELSE <<AliceCard>>

\* urllib.parse.unquote
Unquote(t) == [i \in 1..Len(t) |-> IF t[i] = "%20" THEN SP ELSE t[i]]

\* str.lower()
LowerWord(a) ==
    CASE a = "Hello" -> "hello" [] a = "DIR" -> "dir" [] a = "FILE" -> "file"
      [] a = "SUMMARY" -> "summary" [] a = "VCALENDAR" -> "vcalendar"
      [] a = "VEVENT" -> "vevent" [] a = "Error" -> "error" [] a = "Exception" -> "exception"
      [] OTHER -> LowerAtom(a)

Lower(t) == [i \in 1..Len(t) |-> LowerWord(t[i])]

\* href.rstrip('/').split('/')[-1]
LastSegment(href) ==
    LET h == RStripSlash(href)
        cut == {i \in 1..Len(h) : h[i] = SLASH}
    IN  IF cut = {} THEN h
        ELSE SubSeq(h, (CHOOSE i \in cut : \A j \in cut : j <= i) + 1, Len(h))

\* The lines list_files builds from the entries.
ListingLines(es) ==
    SelectSeq([i \in 1..Len(es) |->
                  IF LastSegment(es[i].href) = <<>> THEN <<>>
                  ELSE <<LBRACK, IF es[i].dir THEN "DIR" ELSE "FILE", RBRACK, SP>>
                       \o Unquote(LastSegment(es[i].href))],
              LAMBDA l : l # <<>>)

\* repr() of a str without control characters, and str() of a list of str.
ReprStr(s) ==
    IF Has(s, APOS) /\ ~Has(s, QUOTE)
    THEN <<QUOTE>> \o JoinWith([i \in 1..Len(s) |-> IF s[i] = BSL THEN <<BSL, BSL>> ELSE <<s[i]>>], <<>>)
         \o <<QUOTE>>
    ELSE <<APOS>>
         \o JoinWith([i \in 1..Len(s) |->
                        IF s[i] \in {BSL, APOS} THEN <<BSL, s[i]>> ELSE <<s[i]>>], <<>>)
         \o <<APOS>>

ReprList(ss) ==
    <<LBRACK>> \o JoinWith([i \in 1..Len(ss) |-> ReprStr(ss[i])], <<COMMA, SP>>) \o <<RBRACK>>

\* parse_ics_data of DAV.py: the listed fields of the physical lines, a
\* repeated field overwritten.
IcsKeys == {<<"SUMMARY">>, <<"DTSTART">>, <<"DTEND">>, <<"DESCRIPTION">>, <<"LOCATION">>}

IcsStep(d, l) ==
    IF Has(l, COLON) /\ Before(l, COLON) \in IcsKeys
    THEN IF DictHas(d, Before(l, COLON))
         THEN [d EXCEPT ![DictIdx(d, Before(l, COLON))].v = Scalar(After(l, COLON))]
         ELSE Append(d, Item(Before(l, COLON), Scalar(After(l, COLON))))
    ELSE d

RECURSIVE IcsLoop(_, _)
IcsLoop(ls, d) == IF ls = <<>> THEN d ELSE IcsLoop(Tail(ls), IcsStep(d, Head(ls)))

ParseIcs(t) == IcsLoop(SplitLines(t), <<>>)

\* parse_vcf_data of DAV.py: the listed fields, the values of a repeated
\* field joined with ", ".
VcfKeys == {<<"FN">>, <<"EMAIL">>, <<"TEL">>, <<"N">>, <<"ORG">>}

VcfStep(d, l) ==
    IF Has(l, COLON) /\ Key(l) \in VcfKeys
    THEN IF DictHas(d, Key(l))
         THEN [d EXCEPT ![DictIdx(d, Key(l))].v =
                            Scalar(@.vals[1] \o <<COMMA, SP>> \o After(l, COLON))]
         ELSE Append(d, Item(Key(l), Scalar(After(l, COLON))))
    ELSE d

RECURSIVE VcfLoop(_, _)
VcfLoop(ls, d) == IF ls = <<>> THEN d ELSE VcfLoop(Tail(ls), VcfStep(d, Head(ls)))

ParseVcf(t) == VcfLoop(SplitLines(t), <<>>)

\* str(v) for a value of a decoded record, and str(d) for a dict of str.
ValueStr(v) == IF v.list THEN ReprList(v.vals) ELSE v.vals[1]

ReprDict(d) ==
    <<LBRACE>>
    \o JoinWith([i \in 1..Len(d) |-> ReprStr(d[i].k) \o <<COLON, SP>> \o ReprStr(d[i].v.vals[1])],
                <<COMMA, SP>>)
    \o <<RBRACE>>

\* any(query.lower() in str(v).lower() for v in event.values())
AnyValueHas(d, q) == \E i \in 1..Len(d) : Contains(Lower(ValueStr(d[i].v)), Lower(q))

\* The text after "Error parsing ...: " and the like: str(e) of the ParseError.
Prefixed(ws, t) == Words(ws) \o <<COLON, SP>> \o t

\* f"{response.status_code} - {response.text}"
StatusAndText(resp) == <<ToString(resp.status), SP, "-", SP>> \o resp.text

\* _extract of Calendar.py and _extract_calendar_data of DAV.py.
ExtractEvents(k, resp) ==
    IF resp.status >= 400
    THEN IF k = "DAV" THEN Prefixed(<<"Error", "fetching", "events">>, StatusAndText(resp))
         ELSE <<"Error", COLON, SP, ToString(resp.status)>>
    ELSE IF resp.body = "broken"
    THEN IF k = "DAV" THEN Prefixed(<<"Error", "parsing", "XML">>, XmlError) ELSE XmlError
    ELSE LET ns == Nodes("CALDAV_URL", resp.body) IN
         ReprList([i \in 1..Len(ns) |->
                     JsonDumpsDict(IF k = "DAV" THEN ParseIcs(ns[i]) ELSE ParseDav(ns[i]))])

\* search_events, from the answer to the REPORT of get_all_events: the events
\* are read back from the text get_all_events returned, which fails on its
\* error texts.
SearchEvents(k, resp, q) ==
    IF resp.status >= 400 \/ resp.body = "broken"
    THEN IF k = "DAV" THEN Words(<<"Error", "processing", "events", "for", "search">>) \o <<DOT>>
         ELSE Words(<<"Search", "Error">>)
    ELSE LET ns == Nodes("CALDAV_URL", resp.body) IN
         IF k = "DAV"
         THEN <<LBRACK>>
              \o JoinWith([i \in 1..Len(SelectSeq(ns, LAMBDA n : AnyValueHas(ParseIcs(n), q))) |->
                             ReprDict(ParseIcs(SelectSeq(ns, LAMBDA n : AnyValueHas(ParseIcs(n), q))[i]))],
                          <<COMMA, SP>>)
              \o <<RBRACK>>
         ELSE JsonDumpsList(SelectSeq([i \in 1..Len(ns) |-> JsonDumpsDict(ParseDav(ns[i]))],
                                      LAMBDA e : AnyValueHas(JsonLoadsDict(e).val, q)))

\* search_contacts of DAV.py.
SearchContactsDav(resp, q) ==
    IF resp.status >= 400
    THEN Prefixed(<<"Error", "fetching", "contacts">>, StatusAndText(resp))
    ELSE IF resp.body = "broken" THEN Prefixed(<<"Error", "parsing", "contacts">>, XmlError)
    ELSE LET ms == SelectSeq(Nodes("CARDDAV_URL", resp.body),
                             LAMBDA n : Contains(Lower(n), Lower(q))) IN
         IF ms = <<>> THEN Words(<<"No", "contacts", "found", "matching", "query">>) \o <<DOT>>
         ELSE ReprList([i \in 1..Len(ms) |-> JsonDumpsDict(ParseVcf(ms[i]))])

\* The address book a well-formed REPORT answer of the CardDAV server shows.
BookOf(body) ==
    IF body = "multistatus" THEN << [name |-> PathOf("Contacts"), text |-> AliceCard] >> ELSE <<>>

----------------------------------------------------------------------------
(* The public tools *)

\* A public tool: its name, the shape of its code, the method and the URL
\* valve of its first request, the path joined to the URL ("raw": the valve is
\* passed as it is), the success codes it hands to _handle_response, and what
\* it expects or converts.
Op(name, shape, m, valve, path, success, x) ==
    [name |-> name, shape |-> shape, m |-> m, valve |-> valve, path |-> path,
     success |-> success, x |-> x]

\* The default success codes of _handle_response.
SuccessOf(k) == IF k \in Kinds THEN {200, 201, 204} ELSE {200, 201, 204, 207}

NewFile(ext) == <<"uuid", DOT, ext>>
Raw == <<"raw">>

ContactsTools ==
    LET v == "CARDDAV_URL" p == PathOf("Contacts") s == SuccessOf("Contacts") IN
    { Op("read_contact", "read", "GET", v, p, s, "dav"),
      Op("new_contact", "handle", "PUT", v, NewFile("vcf"), s, "none"),
      Op("edit_contact", "edit", "GET", v, p, s, "none"),
      Op("delete_contact", "delete", "REPORT", v, Raw, s, "contacts"),
      Op("search_contacts", "report", "REPORT", v, Raw, s, "contacts") }

CalendarTools ==
    LET v == "CALDAV_URL" p == PathOf("Calendar") s == SuccessOf("Calendar") IN
    { Op("get_events", "report", "REPORT", v, Raw, s, "events"),
      Op("get_all_events", "report", "REPORT", v, Raw, s, "events"),
      Op("get_tasks", "report", "REPORT", v, Raw, s, "events"),
      Op("search_events", "report", "REPORT", v, Raw, s, "search"),
      Op("new_event", "handle", "PUT", v, NewFile("ics"), s, "none"),
      Op("new_task", "handle", "PUT", v, NewFile("ics"), s, "none"),
      Op("read_event", "read", "GET", v, p, s, "dav"),
      Op("edit_event", "edit", "GET", v, p, s, "none"),
      Op("edit_task", "edit", "GET", v, p, s, "none"),
      Op("complete_task", "edit", "GET", v, p, s, "none"),
      Op("delete_event", "handle", "DELETE", v, p, s, "none"),
      Op("delete_task", "handle", "DELETE", v, p, s, "none") }

\* The file tools, which Files.py and DAV.py both have.
FileTools ==
    LET v == "WEBDAV_BASE_URL" p == PathOf("Files") IN
    { Op("list_files", "list", "PROPFIND", v, p, {}, "none"),
      Op("create_directory", "handle", "MKCOL", v, p, {201}, "none"),
      Op("delete_directory", "handle", "DELETE", v, p, {204}, "none"),
      Op("create_file", "handle", "PUT", v, p, {201, 204}, "none"),
      Op("delete_file", "handle", "DELETE", v, p, {204}, "none"),
      Op("read_file", "read", "GET", v, p, {}, "text"),
      Op("read_json_file", "read", "GET", v, p, {}, "json"),
      Op("write_json_file", "handle", "PUT", v, p, {201, 204}, "none"),
      Op("copy_file", "handle", "COPY", v, p, {201, 204}, "none"),
      Op("move_file", "handle", "MOVE", v, p, {201, 204}, "none"),
      Op("copy_directory", "handle", "COPY", v, p, {201, 204}, "none"),
      Op("move_directory", "handle", "MOVE", v, p, {201, 204}, "none"),
      Op("is_file", "check", "PROPFIND", v, p, {}, "file"),
      Op("is_directory", "check", "PROPFIND", v, p, {}, "directory"),
      Op("search_files", "search", "SEARCH", v, Raw, {}, "none") }

\* The calendar and contact tools of DAV.py.
DavTools ==
    LET c == "CALDAV_URL" b == "CARDDAV_URL" s == SuccessOf("DAV") IN
    { Op("get_events", "report", "REPORT", c, Raw, s, "events"),
      Op("get_all_events", "report", "REPORT", c, Raw, s, "events"),
      Op("search_events", "report", "REPORT", c, Raw, s, "search"),
      Op("new_event", "handle", "PUT", c, NewFile("ics"), {201, 204}, "none"),
      Op("delete_event", "handle", "DELETE", c, PathOf("Calendar"), s, "none"),
      Op("new_contact", "handle", "PUT", b, NewFile("vcf"), {201, 204}, "none"),
      Op("delete_contact", "handle", "DELETE", b, PathOf("Contacts"), s, "none"),
      Op("search_contacts", "report", "REPORT", b, Raw, s, "contacts") }

\* The tools of a class that use a collection URL.
ToolsOf(k) ==
    CASE k = "Contacts" -> ContactsTools
      [] k = "Calendar" -> CalendarTools
      [] k = "Files"    -> FileTools
      [] k = "DAV"      -> FileTools \cup DavTools

\* The URL of the first request of the tool.
FirstUrl(vs, op) == IF op.path = Raw THEN vs[op.valve] ELSE JoinUrl(vs[op.valve], op.path)

----------------------------------------------------------------------------
(* What each tool makes of the responses *)

\* t.split(c)
RECURSIVE SplitAt(_, _)
SplitAt(t, c) == IF Has(t, c) THEN <<Before(t, c)>> \o SplitAt(After(t, c), c) ELSE <<t>>

\* How a call ends: it returns a text, or an exception leaves the tool
\* (response.status_code of a str: AttributeError).
Returned(t) == [raised |-> FALSE, result |-> t]
AttributeRaised == [raised |-> TRUE, result |-> <<>>]

\* f"Error: {resp.status_code}"
ErrorStatus(resp) == <<"Error", COLON, SP, ToString(resp.status)>>

\* str(is_collection == expect_collection) for a resource that is a file.
FileIs(x) == IF x = "file" THEN <<"True">> ELSE <<"False">>

\* read_contact, read_event, read_file, read_json_file
ReadResult(k, op, resp) ==
    IF resp.status # 200
    THEN IF k = "DAV" THEN Prefixed(<<"Error", "reading", "file">>, StatusAndText(resp))
         ELSE IF op.x = "json" THEN <<"Error", COLON, SP>> \o Words(<<"Invalid", "JSON">>)
         ELSE ErrorStatus(resp)
    ELSE IF op.x = "dav" THEN JsonDumpsDict(ParseDav(GetText(k, resp.body)))
    ELSE IF op.x = "text" THEN GetText(k, resp.body)
    ELSE IF k = "DAV" /\ GetText(k, resp.body) # <<>> /\ Head(GetText(k, resp.body)) = "Error"
    THEN GetText(k, resp.body)
    ELSE IF GetText(k, resp.body) = JsonFile THEN JsonFilePretty
    ELSE IF k = "DAV"
    THEN <<"Error", COLON, SP>> \o Words(<<"File", "content", "is", "not", "valid", "JSON">>)
         \o <<DOT>>
    ELSE <<"Error", COLON, SP>> \o Words(<<"Invalid", "JSON">>)

\* _check_type of Files.py and _check_resource_type of DAV.py
CheckResult(k, op, resp) ==
    IF resp.status >= 400
    THEN IF k = "DAV"
         THEN <<"False", SP, LPAREN>> \o Words(<<"Not", "found", "or", "error">>) \o <<RPAREN>>
         ELSE <<"False">>
    ELSE IF resp.body = "broken" \/ (resp.body = "empty" /\ k = "DAV")
    THEN IF k = "DAV"
         THEN <<"False", SP, LPAREN>> \o Words(<<"Error", "parsing">>) \o <<RPAREN>>
         ELSE <<"False">>
    ELSE FileIs(op.x)

\* list_files
ListFiles(k, resp) ==
    IF resp.status >= 400
    THEN IF k = "DAV" THEN Prefixed(<<"Error", "listing", "files">>, StatusAndText(resp))
         ELSE <<"Error", COLON, SP>> \o StatusAndText(resp)
    ELSE IF resp.body = "broken"
    THEN IF k = "DAV" THEN Prefixed(<<"Exception", "listing", "files">>, XmlError)
         ELSE Prefixed(<<"Exception">>, XmlError)
    ELSE Join(ListingLines(Entries(resp.body)), NL)

\* The tools that read status_code of the response of a raw valve URL.
ReportResult(k, op, resp) ==
    CASE op.x = "events" -> ExtractEvents(k, resp)
      [] op.x = "search" -> SearchEvents(k, resp, EventQuery)
      [] op.x = "contacts" ->
            IF k = "DAV" THEN SearchContactsDav(resp, ContactQuery)
            ELSE SearchResult(resp.status, resp.body, BookOf(resp.body), ContactQuery)

\* A tool that sends one request, from _request's return value to its own.
Once(k, op, resp) ==
    IF ~resp.obj THEN AttributeRaised
    ELSE Returned(CASE op.shape = "handle" -> HandleResponseOf(k, resp, op.success)
                    [] op.shape = "read" -> ReadResult(k, op, resp)
                    [] op.shape = "check" -> CheckResult(k, op, resp)
                    [] op.shape = "list" -> ListFiles(k, resp)
                    [] op.shape = "report" -> ReportResult(k, op, resp))

\* search_files: the root DAV URL.
FilesPart == <<SLASH, "files", SLASH>>
RootUrl(u) ==
    IF u # <<>> /\ Contains(u, FilesPart)
    THEN SubSeq(u, 1, (CHOOSE i \in 1..Len(u) :
                          /\ SubSeq(u, i, i + Len(FilesPart) - 1) = FilesPart
                          /\ \A j \in 1..(i - 1) : SubSeq(u, j, j + Len(FilesPart) - 1) # FilesPart) - 1)
         \o <<SLASH>>
    ELSE u

\* search_files: the result made of a SEARCH answered below 400.
SearchParsed(k, resp) ==
    IF resp.body = "broken"
    THEN IF k = "DAV" THEN Prefixed(<<"Error", "parsing", "search", "results">>, XmlError)
         ELSE XmlError
    ELSE IF Entries(resp.body) = <<>>
    THEN Words(IF k = "DAV" THEN <<"No", "matches", "found">> ELSE <<"No", "matches">>) \o <<DOT>>
    ELSE Join([i \in 1..Len(Entries(resp.body)) |-> Unquote(Entries(resp.body)[i].href)], NL)

\* search_files: the client-side filter over the lines of list_files(""),
\* after the last SEARCH response resp.
FilterLines(all_files, q) ==
    SelectSeq(SplitAt(all_files, NL), LAMBDA l : Contains(Lower(l), Lower(q)))

SearchFallbackResult(k, resp, all_files, q) ==
    IF Has(all_files, "Error")
    THEN IF k = "DAV" THEN Prefixed(<<"Search", "failed">>, StatusAndText(resp))
         ELSE Words(<<"Search", "Error">>) \o <<COLON, SP, ToString(resp.status)>>
    ELSE IF k = "DAV" /\ FilterLines(all_files, q) = <<>>
    THEN Words(<<"No", "matches", "found">>)
         \o <<SP, LPAREN, "Client-side", SP, "fallback", RPAREN, DOT>>
    ELSE Join(FilterLines(all_files, q), NL)

----------------------------------------------------------------------------
(* The tools as calls: one public tool of one Tools instance is called; each *)
(* action is one request and the code that follows it up to the next request *)
(* or to the end of the call                                                 *)

NoResponse == [obj |-> FALSE, status |-> 0, text |-> <<>>, body |-> "none"]

ToolCalls(k) ==
    {[pc |-> "call", op |-> o, resp |-> NoResponse, file |-> <<>>, reqs |-> <<>>,
      result |-> <<>>] : o \in ToolsOf(k)}

InitTools ==
    /\ kind \in Modules
    /\ valves \in ValveChoices(kind)
    /\ call \in ToolCalls(kind)
    /\ NoCodec
    /\ NoEdit
    /\ NoHelperCalls
    /\ NoDelete

\* The calls of http.request so far, with this one: its method, URL and
\* search scope, the status the caller sees, whether it went on the wire, and
\* whether the sending raised.
Logged(m, url, scope, resp) ==
    IF Attempted(url)
    THEN Append(call.reqs, [m |-> m, url |-> url, scope |-> scope,
                            status |-> resp.status, wire |-> OnWire(url),
                            failed |-> resp = DummyResponse(kind, url)])
    ELSE call.reqs

\* The call ends as r says.
Ended(reqs, resp, r) ==
    call' = [call EXCEPT !.pc = IF r.raised THEN "raised" ELSE "done",
                         !.resp = resp, !.reqs = reqs, !.result = r.result]

\* The call goes on to its next request.
GoesOn(reqs, resp, next) ==
    call' = [call EXCEPT !.pc = next, !.resp = resp, !.reqs = reqs]

ToolFrame == UNCHANGED <<kind, valves, args, frames, tpc, ret, overlap,
                         codecVars, editVars, deleteVars>>

\* A tool that sends one request.
ToolOnce ==
    /\ call.pc = "call"
    /\ call.op.shape \in {"handle", "read", "check", "list", "report"}
    /\ \E o \in OutcomesFor(FirstUrl(valves, call.op)) :
          Ended(Logged(call.op.m, FirstUrl(valves, call.op), <<>>,
                       Request(kind, FirstUrl(valves, call.op), o)),
                Request(kind, FirstUrl(valves, call.op), o),
                Once(kind, call.op, Request(kind, FirstUrl(valves, call.op), o)))
    /\ ToolFrame

\* edit_contact, edit_event, edit_task, complete_task: the GET.
AfterToolGet(reqs, resp) ==
    IF ~resp.obj THEN Ended(reqs, resp, AttributeRaised)
    ELSE IF resp.status # 200 THEN Ended(reqs, resp, Returned(ReadError(kind)))
    ELSE GoesOn(reqs, resp, "got")

ToolGet ==
    /\ call.pc = "call"
    /\ call.op.shape = "edit"
    /\ \E o \in OutcomesFor(FirstUrl(valves, call.op)) :
          AfterToolGet(Logged("GET", FirstUrl(valves, call.op), <<>>,
                              Request(kind, FirstUrl(valves, call.op), o)),
                       Request(kind, FirstUrl(valves, call.op), o))
    /\ ToolFrame

\* The tools that end with _handle_response of a second request.
AfterLast(reqs, resp) ==
    Ended(reqs, resp,
          IF resp.obj THEN Returned(HandleResponseOf(kind, resp, call.op.success))
          ELSE AttributeRaised)

\* edit_contact, edit_event, edit_task, complete_task: the PUT.
ToolPut ==
    /\ call.pc = "got"
    /\ \E o \in OutcomesFor(FirstUrl(valves, call.op)) :
          AfterLast(Logged("PUT", FirstUrl(valves, call.op), <<>>,
                           Request(kind, FirstUrl(valves, call.op), o)),
                    Request(kind, FirstUrl(valves, call.op), o))
    /\ ToolFrame

\* delete_contact of Contacts.py: the search.
AfterToolFind(reqs, resp, d) ==
    IF d.delete THEN call' = [call EXCEPT !.pc = "found", !.resp = resp, !.reqs = reqs,
                                          !.file = d.file]
    ELSE Ended(reqs, resp, Returned(d.result))

ToolFind ==
    /\ call.pc = "call"
    /\ call.op.shape = "delete"
    /\ \E o \in OutcomesFor(FirstUrl(valves, call.op)) :
          IF ~Request(kind, FirstUrl(valves, call.op), o).obj
          THEN Ended(call.reqs, Request(kind, FirstUrl(valves, call.op), o), AttributeRaised)
          ELSE AfterToolFind(Logged("REPORT", FirstUrl(valves, call.op), <<>>,
                                    Request(kind, FirstUrl(valves, call.op), o)),
                             Request(kind, FirstUrl(valves, call.op), o),
                             Decide(ReportResult(kind, call.op,
                                                 Request(kind, FirstUrl(valves, call.op), o))))
    /\ ToolFrame

\* delete_contact of Contacts.py: the DELETE of "<uid>.vcf".
ToolDelete ==
    /\ call.pc = "found"
    /\ \E o \in OutcomesFor(JoinUrl(valves[call.op.valve], call.file)) :
          AfterLast(Logged("DELETE", JoinUrl(valves[call.op.valve], call.file), <<>>,
                           Request(kind, JoinUrl(valves[call.op.valve], call.file), o)),
                    Request(kind, JoinUrl(valves[call.op.valve], call.file), o))
    /\ ToolFrame

\* The step after a SEARCH response with the root URL tried after any failed
\* first SEARCH.
AfterSearchRetriesAnyError(reqs, resp, first) ==
    IF ~resp.obj THEN Ended(reqs, resp, AttributeRaised)
    ELSE IF /\ first
            /\ resp.status >= 400
            /\ RootUrl(valves.WEBDAV_BASE_URL) # valves.WEBDAV_BASE_URL
    THEN GoesOn(reqs, resp, "root")
    ELSE IF resp.status >= 400 THEN GoesOn(reqs, resp, "fallback")
    ELSE Ended(reqs, resp, Returned(SearchParsed(kind, resp)))

\* search_files: after a SEARCH response, the second SEARCH (only after the
\* first), the fallback, or the result.
AfterSearch(reqs, resp, first) ==
    IF ~resp.obj THEN Ended(reqs, resp, AttributeRaised)
    ELSE IF /\ first
            /\ resp.status \in {501, 404, 405}
            /\ RootUrl(valves.WEBDAV_BASE_URL) # valves.WEBDAV_BASE_URL
    THEN GoesOn(reqs, resp, "root")
    ELSE IF resp.status >= 400 THEN GoesOn(reqs, resp, "fallback")
    ELSE Ended(reqs, resp, Returned(SearchParsed(kind, resp)))

\* search_files: the SEARCH against the file URL.
SearchFile ==
    /\ call.pc = "call"
    /\ call.op.shape = "search"
    /\ \E o \in OutcomesFor(valves.WEBDAV_BASE_URL) :
          AfterSearch(Logged("SEARCH", valves.WEBDAV_BASE_URL, valves.WEBDAV_BASE_URL,
                             Request(kind, valves.WEBDAV_BASE_URL, o)),
                      Request(kind, valves.WEBDAV_BASE_URL, o), TRUE)
    /\ ToolFrame

\* search_files: the SEARCH against the root URL, scoped to the file URL.
SearchRoot ==
    /\ call.pc = "root"
    /\ \E o \in OutcomesFor(RootUrl(valves.WEBDAV_BASE_URL)) :
          AfterSearch(Logged("SEARCH", RootUrl(valves.WEBDAV_BASE_URL), valves.WEBDAV_BASE_URL,
                             Request(kind, RootUrl(valves.WEBDAV_BASE_URL), o)),
                      Request(kind, RootUrl(valves.WEBDAV_BASE_URL), o), FALSE)
    /\ ToolFrame

\* search_files: list_files("") and the client-side filter; the response of
\* the last SEARCH stays the one the error text is made of.
SearchFallback ==
    /\ call.pc = "fallback"
    /\ \E o \in OutcomesFor(JoinUrl(valves.WEBDAV_BASE_URL, <<>>)) :
          Ended(Logged("PROPFIND", JoinUrl(valves.WEBDAV_BASE_URL, <<>>), <<>>,
                       Request(kind, JoinUrl(valves.WEBDAV_BASE_URL, <<>>), o)),
                call.resp,
                Returned(SearchFallbackResult(kind, call.resp,
                            ListFiles(kind, Request(kind, JoinUrl(valves.WEBDAV_BASE_URL, <<>>), o)),
                            FileQuery)))
    /\ ToolFrame

NextTools ==
    \/ ToolOnce \/ ToolGet \/ ToolPut \/ ToolFind \/ ToolDelete
    \/ SearchFile \/ SearchRoot \/ SearchFallback

SpecTools == InitTools /\ [][NextTools]_vars

----------------------------------------------------------------------------
(* Vocabulary of the properties *)

RECURSIVE Concat(_)
\* The texts of ss one after the other, with nothing between them.
Concat(ss) == IF ss = <<>> THEN <<>> ELSE Head(ss) \o Concat(Tail(ss))

RECURSIVE SplitOnRec(_, _, _, _)
SplitOnRec(t, sep, cur, acc) ==
    IF t = <<>> THEN Append(acc, cur)
    ELSE IF Head(t) = sep THEN SplitOnRec(Tail(t), sep, <<>>, Append(acc, cur))
    ELSE SplitOnRec(Tail(t), sep, Append(cur, Head(t)), acc)

\* The lines of a text that was joined with sep: t.split(sep).
SplitOn(t, sep) == SplitOnRec(t, sep, <<>>, <<>>)

\* How many elements of ss equal l.
Count(l, ss) == Cardinality({i \in 1..Len(ss) : ss[i] = l})

RECURSIVE IsSubseq(_, _)
\* The elements of a occur in b in the same order (not necessarily adjacent).
IsSubseq(a, b) ==
    IF a = <<>> THEN TRUE
    ELSE IF b = <<>> THEN FALSE
    ELSE IF Head(a) = Head(b) THEN IsSubseq(Tail(a), Tail(b))
    ELSE IsSubseq(a, Tail(b))

\* The field name as the specification defines it: the text before the first
\* ":", without the parameters after the first ";", without a group prefix
\* before the first ".".
SpecFieldName(l) ==
    LET bare == Before(Before(l, COLON), SEMI) IN
    IF Has(bare, DOT) THEN After(bare, DOT) ELSE bare

StartsWithEnd(l) == Len(l) >= 2 /\ SubSeq(l, 1, 2) = <<"END", COLON>>

\* The logical lines of the input whose key (as the code derives it) is not
\* an update key.
Untouched == SelectSeq(Unfold(text), LAMBDA l : Key(l) \notin UpdateKeys(updates))

\* The record opens with a BEGIN line, as every stored record does.
OpensWithBegin ==
    /\ Unfold(text) # <<>>
    /\ Len(Unfold(text)[1]) >= 2
    /\ SubSeq(Unfold(text)[1], 1, 2) = <<"BEGIN", COLON>>

\* The lines of the patched text.
OutLines == SplitOn(out, NL)

\* The lines the update set's "key:value" texts take up in a text joined
\* with "\n" (a value that holds a line break takes up more than one).
UpdateBlock ==
    IF UpdateLines(updates) = <<>> THEN <<>>
    ELSE SplitOn(Join(UpdateLines(updates), NL), NL)

----------------------------------------------------------------------------
(* Properties of _apply_edits, under Spec *)

\* C1: the output keeps no logical line of the original whose field name
\* (group prefix and parameters stripped) is an update key: such a line is in
\* the output at most as often as the update set itself emits it.  Stated
\* for records that open with a BEGIN line.
C1_ReplacedFieldsRemoved ==
    (pc = "patched" /\ OpensWithBegin) =>
        \A l \in {Unfold(text)[i] : i \in 1..Len(Unfold(text))} :
            SpecFieldName(l) \in UpdateKeys(updates)
                => Count(l, OutLines) <= Count(l, UpdateBlock)

C3_UpdatesBeforeEnd ==
    /\ (pc = "patched" /\ OpensWithBegin
        /\ \E i \in 1..Len(Unfold(text)) : Strip(Unfold(text)[i]) = EndTag(kind, text))
       => \E i \in 1..Len(OutLines) :
             /\ Strip(OutLines[i]) = EndTag(kind, text)
             /\ i > Len(UpdateBlock)
             /\ SubSeq(OutLines, i - Len(UpdateBlock), i - 1) = UpdateBlock
    /\ (pc = "patched" /\ kind = "Contacts" /\ text = AliceCard
        /\ updates = << Item(<<"FN">>, Scalar(<<"Alicia">>)) >>)
       => out = Join(<< <<"BEGIN", COLON, "VCARD">>, <<"VERSION", COLON, "3", DOT, "0">>,
                        <<"UID", COLON, "u1">>, <<"FN", COLON, "Alicia">>, EndVCard >>, NL)

\* C4: when the last copied line does not start with "END:", the output
\* still holds every update line and ends with the default terminator of the
\* component kind, so that no update value is lost.  Stated for records
\* that open with a BEGIN line.
C4_FallbackTerminator ==
    (/\ pc = "patched"
     /\ OpensWithBegin
     /\ UpdateBlock # <<>>
     /\ Untouched # <<>>
     /\ ~StartsWithEnd(Untouched[Len(Untouched)]))
    => LET tail == UpdateBlock \o <<EndTag(kind, text)>> IN
       /\ Len(OutLines) >= Len(tail)
       /\ SubSeq(OutLines, Len(OutLines) - Len(tail) + 1, Len(OutLines)) = tail

\* C5: with the empty update set the output is the logical lines of
\* _unfold(t) joined with "\n".
C5_EmptyUpdateIsUnfoldJoin ==
    (pc = "patched" /\ updates = <<>>) => out = Join(Unfold(text), NL)

\* C5's case: the empty update set applied to a text with a folded line.
C5_Witness ==
    /\ pc = "patched"
    /\ updates = <<>>
    /\ Len(Unfold(text)) >= 2
    /\ Len(Unfold(text)) < Len(SplitLines(text))
    /\ out # text

\* C6: for a record that opens with a BEGIN line and ends with its END line,
\* applying the same update set to the patched text gives the patched text
\* again.
C6_Idempotent ==
    (/\ pc = "patched2"
     /\ OpensWithBegin
     /\ Strip(Unfold(text)[Len(Unfold(text))]) = EndTag(kind, text))
    => out2 = out

----------------------------------------------------------------------------
(* Properties of _unfold and _parse_dav, under SpecDecode *)

\* The text of the fold scenario: "SUMMARY:Hello", then the physical line " World".
FoldText == <<"SUMMARY", COLON, "Hello", NL, SP, "World">>

\* C7 as stated: the scenario unfolds to "SUMMARY:Hello World" and decodes to
\* {"SUMMARY": "Hello World"}.
C7_FoldKeepsSpace ==
    /\ (pc = "unfolded" /\ text = FoldText)
       => lines = << <<"SUMMARY", COLON, "Hello", SP, "World">> >>
    /\ (pc = "parsed" /\ text = FoldText)
       => data = << Item(<<"SUMMARY">>, Scalar(<<"Hello", SP, "World">>)) >>

\* C7 as amended: the scenario unfolds to the single logical line
\* "SUMMARY:HelloWorld" and decodes to {"SUMMARY": "HelloWorld"}: the leading
\* space of the continuation is removed and nothing is put in its place.
C7_FoldDropsSpace ==
    /\ (pc = "unfolded" /\ text = FoldText)
       => lines = << <<"SUMMARY", COLON, "Hello", "World">> >>
    /\ (pc = "parsed" /\ text = FoldText)
       => data = << Item(<<"SUMMARY">>, Scalar(<<"Hello", "World">>)) >>

\* C7's case: the scenario text has been decoded.
C7_Witness ==
    /\ pc = "parsed"
    /\ text = FoldText
    /\ Len(data) = 1

\* The logical lines that hold a ":".
ColonLines == SelectSeq(Unfold(text), LAMBDA l : Has(l, COLON))

\* C8: every decoded key is the field name of a line with its parameters and
\* its group prefix dropped: "item1.ADR;TYPE=HOME:x" is stored under "ADR",
\* "EMAIL;TYPE=HOME:y" under "EMAIL".
C8_GroupPrefixDropped ==
    pc = "parsed" =>
        DictKeys(data) = {SpecFieldName(ColonLines[i]) : i \in 1..Len(ColonLines)}

\* The values of the lines stored under key k, in source order.
ValuesOf(k) ==
    LET hits == SelectSeq(ColonLines, LAMBDA l : Key(l) = k) IN
    [i \in 1..Len(hits) |-> After(hits[i], COLON)]

Phys == SplitLines(text)

\* A physical line without the one leading space or tab that marks it as a
\* continuation.
StripLead(l) == IF IsContinuation(l) THEN Tail(l) ELSE l

\* The positions of the physical lines that are not continuations, ascending.
HeadIdx ==
    SelectSeq([i \in 1..Len(Phys) |-> i], LAMBDA i : ~IsContinuation(Phys[i]))

\* The j-th non-continuation line followed by its continuation lines, each
\* without its leading character.
Grouped(j) ==
    LET from == HeadIdx[j]
        to   == IF j < Len(HeadIdx) THEN HeadIdx[j + 1] - 1 ELSE Len(Phys)
    IN Phys[from] \o Concat([m \in 1..(to - from) |-> Tail(Phys[from + m])])

\* The logical lines are the non-continuation lines in source order, each
\* followed by its continuations; there are no more of them than physical lines.
UnfoldShape ==
    /\ Len(lines) = Len(HeadIdx)
    /\ \A j \in 1..Len(lines) : lines[j] = Grouped(j)
    /\ Len(lines) <= Len(Phys)

\* C10 as stated: the shape above, and nothing of the input is lost but the
\* line breaks and the single leading characters of the continuation lines.
C10_UnfoldLossless ==
    pc = "unfolded" =>
        /\ UnfoldShape
        /\ Concat(lines) = Concat([i \in 1..Len(Phys) |-> StripLead(Phys[i])])

\* C10 as amended: the shape above, and nothing of the input is lost but the
\* line breaks, the single leading characters of the continuation lines, and
\* the continuation lines before the first non-continuation line, which are
\* dropped whole.
C10_UnfoldLosslessAfterFirstHead ==
    pc = "unfolded" =>
        /\ UnfoldShape
        /\ LET first == IF HeadIdx = <<>> THEN Len(Phys) + 1 ELSE HeadIdx[1] IN
           Concat(lines)
             = Concat([i \in 1..(Len(Phys) - first + 1) |-> StripLead(Phys[first + i - 1])])

\* C10's case: a text that opens with a continuation line and goes on with a
\* line that has a continuation of its own.
C10_Witness ==
    /\ pc = "unfolded"
    /\ Len(Phys) >= 3
    /\ IsContinuation(Phys[1])
    /\ ~IsContinuation(Phys[2])
    /\ IsContinuation(Phys[3])
    /\ Len(lines) = 1

\* C11: unfolding yields a result for every text; a text that opens with a
\* continuation line unfolds to what the text without that line unfolds to, so
\* no logical line is opened for it; the empty text unfolds to no line at all.
C11_LeadingContinuationDropped ==
    pc = "unfolded" =>
        /\ text = <<>> => lines = <<>>
        /\ Len(lines) = Len(HeadIdx)
        /\ (Phys # <<>> /\ IsContinuation(Phys[1]))
              => lines = UnfoldLoop(Tail(Phys), <<>>)
        /\ (\A i \in 1..Len(Phys) : IsContinuation(Phys[i])) => lines = <<>>

\* C11's case: a text whose first physical line is a continuation line with
\* content, followed by a line that is kept.
C11_Witness ==
    /\ pc = "unfolded"
    /\ Len(Phys) >= 2
    /\ IsContinuation(Phys[1])
    /\ Len(Phys[1]) >= 2
    /\ lines # <<>>
    /\ lines[1] = Phys[2]

\* The values the decoded dict holds for key k, in stored order.
Stored(k) == IF DictHas(data, k) THEN data[DictIdx(data, k)].v.vals ELSE <<>>

\* Logical line l is name, ":" and value v, the name holding no ":".
SplitsAtFirstColon(l, v) ==
    \E n \in 0..(Len(l) - 1) :
        /\ ~Has(SubSeq(l, 1, n), COLON)
        /\ l = SubSeq(l, 1, n) \o <<COLON>> \o v

\* C12: the value stored for a line is all of its text after the first ":",
\* as it stands (later ":" and ";" and backslash escapes included); the lines
\* without ":" add no key and no value.
C12_ValueVerbatim ==
    pc = "parsed" =>
        /\ \A k \in DictKeys(data) :
              LET hits == SelectSeq(ColonLines, LAMBDA l : Key(l) = k) IN
              /\ Len(Stored(k)) = Len(hits)
              /\ \A j \in 1..Len(hits) : SplitsAtFirstColon(hits[j], Stored(k)[j])
        /\ DictKeys(data) = {Key(ColonLines[i]) : i \in 1..Len(ColonLines)}

\* C12's case: a decoded value that holds a later ":", a ";" and a backslash
\* escape, next to a line without ":".
C12_Witness ==
    /\ pc = "parsed"
    /\ \E i \in 1..Len(data) : \E j \in 1..Len(data[i].v.vals) :
          /\ Has(data[i].v.vals[j], COLON)
          /\ Has(data[i].v.vals[j], SEMI)
          /\ Has(data[i].v.vals[j], BSL)
    /\ \E i \in 1..Len(Unfold(text)) :
          Unfold(text)[i] # <<>> /\ ~Has(Unfold(text)[i], COLON)

\* The component types of the delimiter lines named tag ("BEGIN" or "END"),
\* in source order.
Delimiters(tag) ==
    LET hits == SelectSeq(Unfold(text), LAMBDA l : Len(l) >= 2 /\ l[1] = tag /\ l[2] = COLON)
    IN [i \in 1..Len(hits) |-> SubSeq(hits[i], 3, Len(hits[i]))]

\* C13: the BEGIN:<TYPE> and END:<TYPE> lines are decoded like any field: the
\* dict holds the keys BEGIN and END, with the component types as values.
C13_DelimitersAreFields ==
    pc = "parsed" =>
        /\ \A tag \in {"BEGIN", "END"} :
              /\ Stored(<<tag>>) = Delimiters(tag)
              /\ Delimiters(tag) # <<>> => DictHas(data, <<tag>>)
        /\ text = AliceCard =>
              /\ data[1] = Item(<<"BEGIN">>, Scalar(<<"VCARD">>))
              /\ data[Len(data)] = Item(<<"END">>, Scalar(<<"VCARD">>))

\* C13's case: a whole vCard has been decoded.
C13_Witness ==
    /\ pc = "parsed"
    /\ text = AliceCard
    /\ DictKeys(data) = {<<"BEGIN">>, <<"VERSION">>, <<"UID">>, <<"FN">>, <<"END">>}

----------------------------------------------------------------------------
(* The unique identifier under _apply_edits, under Spec *)

\* The lines of ls whose key is UID.
UidLinesOf(ls) == SelectSeq(ls, LAMBDA l : Key(l) = <<"UID">>)

\* The "UID:value" lines the update set supplies, in list order.
SuppliedUid ==
    LET vs == updates[DictIdx(updates, <<"UID">>)].v.vals IN
    [j \in 1..Len(vs) |-> <<"UID", COLON>> \o vs[j]]

\* C16: when the update set has the key UID, the UID lines of the patched
\* record are exactly the supplied values, in order, whatever UID the record
\* had; with an empty list the patched record has no UID line.  Stated for
\* records that open with a BEGIN line.
C16_UidReplaced ==
    (pc = "patched" /\ kind = "Contacts" /\ OpensWithBegin
       /\ <<"UID">> \in UpdateKeys(updates))
    => UidLinesOf(OutLines) = SuppliedUid

----------------------------------------------------------------------------
(* Properties of the edit tools, under SpecEdit *)

\* The document that reaches _apply_edits in call e.
DocOf(e) == UpdatesJson(ed[e].tool, ed[e].arg)

\* The positions in sent of the requests with method m made by call e.
Requests(m, e) == {i \in 1..Len(sent) : sent[i].m = m /\ sent[i].by = e}

\* doc is an update specification: a JSON object whose values are strings or
\* lists of strings.
ValidSpec(doc) ==
    /\ doc.t = "object"
    /\ \A i \in 1..Len(doc.items) :
          \/ doc.items[i].v.t = "string"
          \/ /\ doc.items[i].v.t = "array"
             /\ \A j \in 1..Len(doc.items[i].v.elems) :
                   doc.items[i].v.elems[j].t = "string"

Success204 == <<"Success", COLON, SP, "204">>

\* C14: a call whose updates_json is no update specification (a JSON array,
\* a number, an object with a numeric or a nested-object value) sends no PUT
\* and does not end with a success message.
C14_MalformedSpecRejected ==
    \A e \in Editors :
        ~ValidSpec(DocOf(e)) =>
            /\ Requests("PUT", e) = {}
            /\ ed[e].pc = "done" => ed[e].result # Success204

\* Both calls read the record before either wrote it, and every request
\* was answered with a success status.
Raced ==
    /\ Len(sent) = 4
    /\ sent[1].m = "GET" /\ sent[2].m = "GET"
    /\ sent[3].m = "PUT" /\ sent[4].m = "PUT"
    /\ \A i \in 1..4 : sent[i].status \in {200, 204}

\* The "key:value" lines call e asks for.
AskedLines(e) == UpdateLines(AsUpdates(DocOf(e).items))

\* The lines of a stored text.
LinesOf(t) == SplitOn(t, NL)

\* C15: when both calls read the record before either wrote it, both are
\* told Success and the record is the original patched with the update set
\* of the last writer alone: a line the first writer asked for is in it only
\* if the original or the last writer's update set had that line.
C15_LostUpdate ==
    Raced =>
        LET first == sent[3].by
            last  == sent[4].by
            O     == ed[first].orig
        IN /\ ed[last].orig = O
           /\ ed[first].result = Success204 /\ ed[last].result = Success204
           /\ store = ApplyEdits(kind, O, AsUpdates(DocOf(last).items))
           /\ \A i \in 1..Len(AskedLines(first)) :
                 Count(AskedLines(first)[i], LinesOf(store))
                   = Count(AskedLines(first)[i], LinesOf(ed[last].new))

\* C15's case: on the vCard of new_contact one call sets TEL and the other
\* sets FN, both read before either writes, both are told Success; the PUT of
\* the first carried TEL:555, the record ends with FN:Bob and without TEL.
C15_Witness ==
    /\ Raced
    /\ kind = "Contacts"
    /\ ed[sent[3].by].orig = AliceCard
    /\ ed[sent[3].by].result = Success204 /\ ed[sent[4].by].result = Success204
    /\ Count(<<"TEL", COLON, "555">>, LinesOf(ed[sent[3].by].new)) = 1
    /\ Count(<<"FN", COLON, "Bob">>, LinesOf(store)) = 1
    /\ Count(<<"TEL", COLON, "555">>, LinesOf(store)) = 0

\* C18: every PUT of a call comes after a GET of the same call that was
\* answered 200, from a call whose document raised nothing, and carries the
\* patch of what that GET returned; a call makes one GET and at most one PUT;
\* a call that ended on a GET status other than 200 or on an exception has
\* sent no PUT and returned the error text.
C18_PutOnlyAfterGoodGet ==
    \A e \in Editors :
        /\ Cardinality(Requests("GET", e)) <= 1
        /\ Cardinality(Requests("PUT", e)) <= 1
        /\ \A i \in Requests("PUT", e) :
              /\ \E j \in Requests("GET", e) : j < i /\ sent[j].status = 200
              /\ ~Raises(DocOf(e))
              /\ ed[e].pc = "done"
              /\ ed[e].new = ApplyEdits(kind, ed[e].orig, AsUpdates(DocOf(e).items))
        /\ (ed[e].pc = "done" /\ \E j \in Requests("GET", e) : sent[j].status # 200)
              => Requests("PUT", e) = {} /\ ed[e].result = ReadError(kind)
        /\ (ed[e].pc = "done" /\ Raises(DocOf(e)))
              => /\ Requests("PUT", e) = {}
                 /\ ed[e].result \in {ReadError(kind), ErrorText(DocOf(e))}

\* C18's case: one call has ended on a GET answered 404, with the error text
\* and no PUT, and the other has sent its PUT after a GET answered 200.
C18_Witness ==
    \E e, f \in Editors :
        /\ ed[e].pc = "done"
        /\ \E j \in Requests("GET", e) : sent[j].status = 404
        /\ Requests("PUT", e) = {}
        /\ ed[e].result = ReadError(kind)
        /\ ed[f].pc = "done"
        /\ \E i \in Requests("PUT", f) : \E j \in Requests("GET", f) :
               j < i /\ sent[j].status = 200

\* The lines of ls whose key is k.
WithKey(ls, k) == SelectSeq(ls, LAMBDA l : Key(l) = k)

\* The position of the first line of ls equal to l; 0 when there is none.
IndexOf(ls, l) ==
    IF \E i \in 1..Len(ls) : ls[i] = l
    THEN CHOOSE i \in 1..Len(ls) : ls[i] = l /\ \A j \in 1..(i - 1) : ls[j] # l
    ELSE 0

\* C20: when complete_task has read a stored task and sent its PUT, the text
\* it sent holds exactly one STATUS line, "STATUS:COMPLETED", and exactly one
\* PERCENT-COMPLETE line, "PERCENT-COMPLETE:100", both between the task's
\* BEGIN:VTODO and END:VTODO lines, and its other lines are the other
\* logical lines of the task as read, in order.
C20_CompleteTaskMarksDone ==
    \A e \in Editors :
        (/\ ed[e].tool = "complete_task"
         /\ Requests("PUT", e) # {}
         /\ IndexOf(Unfold(ed[e].orig), <<"BEGIN", COLON, "VTODO">>) > 0)
        => LET ls    == LinesOf(ed[e].new)
               done  == <<"STATUS", COLON, "COMPLETED">>
               full  == <<"PERCENT-COMPLETE", COLON, "100">>
               other(l) == Key(l) \notin {<<"STATUS">>, <<"PERCENT-COMPLETE">>}
           IN /\ WithKey(ls, <<"STATUS">>) = <<done>>
              /\ WithKey(ls, <<"PERCENT-COMPLETE">>) = <<full>>
              /\ IndexOf(ls, <<"BEGIN", COLON, "VTODO">>) < IndexOf(ls, done)
              /\ IndexOf(ls, done) < IndexOf(ls, EndVTodo)
              /\ IndexOf(ls, <<"BEGIN", COLON, "VTODO">>) < IndexOf(ls, full)
              /\ IndexOf(ls, full) < IndexOf(ls, EndVTodo)
              /\ SelectSeq(ls, other) = SelectSeq(Unfold(ed[e].orig), other)

----------------------------------------------------------------------------
(* Properties of the helpers under threads, under SpecThreads *)

\* What the call of thread t returns when nothing else runs.
Alone(t) ==
    CASE args[t].fn = "_unfold"    -> Unfold(args[t].text)
      [] args[t].fn = "_parse_dav" -> ParseDav(args[t].text)
      [] OTHER -> ApplyEdits(kind, args[t].text, args[t].updates)

\* C17: no step of a helper call changes the instance's valves, a caller's
\* text or a caller's update mapping, and whatever the other thread does
\* between its steps, a call returns what it returns when it runs alone.
C17_HelpersSideEffectFree ==
    [][ /\ valves' = valves
        /\ args' = args
        /\ \A t \in Threads : tpc'[t] = "done" => ret'[t] = Alone(t) ]_vars

\* C17's case: two calls of different helpers on different texts have both
\* returned, each having had steps of the other in its midst.
C17_Witness ==
    /\ \A t \in Threads : tpc[t] = "done" /\ ret[t] # <<>>
    /\ overlap = Threads
    /\ args["t1"].fn # args["t2"].fn
    /\ args["t1"].text # args["t2"].text

----------------------------------------------------------------------------
(* Properties of delete_contact, under SpecDelete *)

\* The DELETE requests sent.
Deletes == SelectSeq(sent, LAMBDA r : r.m = "DELETE")

\* The card's UID lines hold a value.
HasUid(c) ==
    \E i \in 1..Len(UidLinesOf(Unfold(c.text))) :
        After(UidLinesOf(Unfold(c.text))[i], COLON) # <<>>

\* The search returned exactly one contact, and that contact has a UID.
OneMatchWithUid ==
    \E c \in CardPool :
        /\ HasUid(c)
        /\ del.search_res = JsonDumpsList(<<JsonDumpsDict(ParseDav(c.text))>>)

\* The text is an error message of the tool.
IsErrorText(t) == Len(t) >= 1 /\ t[1] = "Error"

\* C19: a DELETE is sent only after a search that returned exactly one
\* contact with a UID, and only once; a call whose search returned no match,
\* several matches, an error, or a match without UID ends returning an error
\* text, having sent no DELETE.
C19_DeleteOnlySingleMatch ==
    /\ Deletes # <<>> =>
          /\ OneMatchWithUid
          /\ Len(Deletes) = 1
          /\ sent[1].m = "REPORT" /\ sent[1].status < 400
    /\ (del.pc \in {"done", "raised"} /\ ~OneMatchWithUid) =>
          /\ Deletes = <<>>
          /\ del.pc = "done"
          /\ IsErrorText(del.result)

----------------------------------------------------------------------------
(* Properties of the public tools and the request layer, under SpecTools *)

\* The requests of the call that went on the wire, in order.
Wire == SelectSeq(call.reqs, LAMBDA r : r.wire)

FileUrl == valves.WEBDAV_BASE_URL

\* The paths a SEARCH answer lists, one per line, percent-decoded.
FoundPaths ==
    DavPath \o <<NL>> \o DavPath \o <<"my", SP, "notes", DOT, "txt">>

\* The requests of search_files come in the fixed order.
SearchOrder(R) ==
    /\ Len(R) <= 3
    /\ R # <<>> => R[1].m = "SEARCH" /\ R[1].url = FileUrl /\ R[1].scope = FileUrl
    /\ \A i \in 2..Len(R) :
          /\ R[i].m \in {"SEARCH", "PROPFIND"}
          /\ R[i - 1].m = "SEARCH" /\ R[i - 1].status >= 400
          /\ R[i].m = "SEARCH" =>
                /\ i = 2
                /\ R[1].status \in {501, 404, 405}
                /\ RootUrl(FileUrl) # FileUrl
                /\ R[2].url = RootUrl(FileUrl) /\ R[2].scope = FileUrl
          /\ R[i].m = "PROPFIND" =>
                /\ R[i].url = JoinUrl(FileUrl, <<>>)
                /\ i = 2 => ~(R[1].status \in {501, 404, 405} /\ RootUrl(FileUrl) # FileUrl)

\* The call has returned and every step that was due was taken: the second
\* SEARCH after a 501, 404 or 405 when the root URL differs, the listing after
\* a last SEARCH answered 400 or above, and the paths of the SEARCH answer
\* returned after a SEARCH answered below 400.
SearchComplete(R) ==
    /\ R # <<>>
    /\ (R[1].status \in {501, 404, 405} /\ RootUrl(FileUrl) # FileUrl) =>
          Len(R) >= 2 /\ R[2].m = "SEARCH"
    /\ R[Len(R)].m = "PROPFIND" \/ R[Len(R)].status < 400
    /\ (R[Len(R)].m = "SEARCH" /\ call.resp.body = "multistatus") =>
          call.result = FoundPaths

\* C21: search_files first sends a SEARCH against the file URL; only after a
\* 501, 404 or 405 and with a root URL that differs it sends a second SEARCH
\* against the root URL scoped to the file URL; only after a last SEARCH
\* answered 400 or above it lists the files and filters them; a SEARCH answered
\* below 400 is the last request, and its result is what the call returns.
C21_SearchOrder ==
    call.pc # "idle" /\ call.op.name = "search_files" =>
        /\ SearchOrder(Wire)
        /\ (call.pc = "done" /\ FileUrl # <<>>) => SearchComplete(Wire)

\* The second SEARCH was answered with the paths after the first was refused.
C21_Witness ==
    /\ call.pc = "done" /\ call.op.name = "search_files"
    /\ Len(Wire) = 2
    /\ Wire[1].status = 501 /\ Wire[2].m = "SEARCH" /\ Wire[2].status = 207
    /\ Wire[2].url # Wire[1].url /\ Wire[2].scope = Wire[1].url
    /\ call.result = FoundPaths

\* The requests of the call whose sending raised an exception.
SendFailed == {i \in 1..Len(call.reqs) : call.reqs[i].failed}

Finished == call.pc \in {"done", "raised"}

\* The result is an error text.
ErrorReport(t) == Contains(t, <<"Error">>) \/ Contains(t, <<"Search", SP, "failed">>)

\* The request sent last, when the response the call holds is the answer to it
\* (search_files keeps the SEARCH response while it lists the files).
LastHeld ==
    IF call.reqs # <<>> /\ ~(call.op.shape = "search" /\ call.reqs[Len(call.reqs)].m = "PROPFIND")
    THEN {call.reqs[Len(call.reqs)]} ELSE {}

\* An exception of the sending reaches the caller as an object with
\* status_code 503 and the error text.
FailureIs503 ==
    \A r \in LastHeld : r.failed =>
        /\ call.resp.obj /\ call.resp.status = 503 /\ r.status = 503
        /\ Contains(call.resp.text, SendError(r.url))

\* C22 as stated: _request never raises; an exception of the sending becomes a
\* response with status_code 503 and the error text, and every tool whose
\* request failed so returns an error text.
C22_SendFailureReported ==
    /\ FailureIs503
    /\ (Finished /\ SendFailed # {}) => call.pc = "done" /\ ErrorReport(call.result)

\* The files were listed and the listing was answered.
ListingAnswered ==
    /\ call.op.shape = "search"
    /\ call.reqs[Len(call.reqs)].m = "PROPFIND" /\ call.reqs[Len(call.reqs)].status < 400

\* C22, amended: _request never raises; an exception of the sending becomes a
\* response with status_code 503 and the error text; the tool returns, never
\* with a success text, and with an error text unless it is is_file or
\* is_directory, which answer "False" or "False (Not found or error)", or
\* search_files whose listing of the files was then answered.
C22_SendFailureNeverSuccess ==
    /\ FailureIs503
    /\ (Finished /\ SendFailed # {}) =>
          /\ call.pc = "done"
          /\ ~Contains(call.result, <<"Success">>)
          /\ IF call.op.shape = "check" THEN call.result[1] = "False"
             ELSE ErrorReport(call.result) \/ ListingAnswered

\* A request that went on the wire failed and the tool returned the error.
C22_Witness ==
    /\ call.pc = "done" /\ call.op.name = "create_file"
    /\ SendFailed = {1} /\ call.reqs[1].wire
    /\ call.resp.status = 503
    /\ call.result = <<"Error", SP, "503", COLON, SP>> \o call.resp.text

\* The URL valve the tool uses is empty.
Unconfigured == valves[call.op.valve] = <<>>

\* C23: with an empty collection URL valve every public tool returns an error
\* text, raises no exception and puts no HTTP request on the wire.
C23_EmptyUrlIsError ==
    (call.pc # "idle" /\ Unconfigured) =>
        /\ call.pc # "raised"
        /\ \A i \in 1..Len(call.reqs) : ~call.reqs[i].wire
        /\ call.pc = "done" => ErrorReport(call.result)

----------------------------------------------------------------------------
(* Further properties of _apply_edits, under Spec *)

\* The field names of the update keys, and the output lines that carry one.
UpdatedNames == {Key(k \o <<COLON>>) : k \in UpdateKeys(updates)}
UpdatedLines == {i \in 1..Len(OutLines) : Key(OutLines[i]) \in UpdatedNames}

\* The tag of the component: END:VEVENT when the text contains BEGIN:VEVENT,
\* END:VTODO otherwise.
ComponentEnd == IF Contains(text, BeginVEvent) THEN EndVEvent ELSE EndVTodo

\* C24: Calendar._apply_edits inserts the update lines exactly once, before
\* the first line equal to END:VEVENT when the text contains BEGIN:VEVENT and
\* before the first END:VTODO otherwise, so that the output holds as many lines
\* with an updated field name as the update set holds values.  Stated for
\* records that open with a BEGIN line.
C24_InsertedOnce ==
    (pc = "patched" /\ kind = "Calendar" /\ OpensWithBegin
     /\ UpdateLines(updates) # <<>>) =>
        /\ \E i \in 1..Len(Untouched) :
              /\ Untouched[i] = ComponentEnd
              /\ \A j \in 1..(i - 1) : Untouched[j] # ComponentEnd
              /\ OutLines = SubSeq(Untouched, 1, i - 1) \o UpdateLines(updates)
                            \o SubSeq(Untouched, i, Len(Untouched))
        /\ Cardinality(UpdatedLines) = Len(UpdateLines(updates))

\* The keys and values of the update set hold no line break, and no key
\* starts with a space or a tab.
PlainUpdates ==
    \A i \in 1..Len(updates) :
        /\ ~Has(updates[i].k, NL) /\ ~Has(updates[i].k, CR)
        /\ updates[i].k # <<>> => updates[i].k[1] \notin {SP, TAB}
        /\ \A j \in 1..Len(updates[i].v.vals) :
              ~Has(updates[i].v.vals[j], NL) /\ ~Has(updates[i].v.vals[j], CR)

\* C25: for such an update set the output is in unfolded form: split on "\n"
\* it gives _unfold of the output (which leaves out one empty line at the end),
\* so that no output line is a continuation line and none is folded again.
\* Stated for records that open with a BEGIN line.
C25_OutputUnfolded ==
    (pc = "patched" /\ OpensWithBegin /\ PlainUpdates) =>
        /\ \A i \in 1..Len(OutLines) : ~IsContinuation(OutLines[i])
        /\ IF OutLines[Len(OutLines)] = <<>>
           THEN OutLines = Append(Unfold(out), <<>>)
           ELSE OutLines = Unfold(out)

====
